---- MODULE Spec2Model ----
(***************************************************************************)
(* Model of the fan control core of phosphor-fan-presence:                 *)
(*   - control::json::Zone      (src/control/json/zone.cpp)                *)
(*   - control::json::Manager   (src/control/json/manager.cpp)             *)
(*   - monitor::Fan             (src/monitor/fan.cpp)                      *)
(* Every component has a specification of its own (SpecZone, SpecReload,   *)
(* SpecServ, SpecSignal, SpecTimer, SpecFan): it moves the variables of    *)
(* that component and leaves the others as constructed.  All callbacks run *)
(* on one event loop, so every handler is a sequence of steps no other     *)
(* handler interleaves with.                                               *)
(***************************************************************************)
EXTENDS Integers, Sequences, FiniteSets, TLC

VARIABLES
    \* ---- Zone (one zone object) ----
    fullSpeed,      \* Zone::_fullSpeed
    floor,          \* Zone::_floor
    target,         \* Zone::_target
    floorChange,    \* Zone::_floorChange : key -> bool (partial map)
    incDelay,       \* Zone::_incDelay
    incDeadline,    \* instant until which no decrease may apply
    decRequest,     \* smallest decrease requested in the current interval (0: none)
    now,            \* the event loop's clock
    zoneLast        \* the last zone operation and the state it was called in

VARIABLES
    \* ---- Manager: configuration containers and load() ----
    zones,          \* Manager::_zones : configKey -> zone
    events,         \* Manager::_events : configKey -> event
    profiles,       \* Manager::_profiles (the keys of the map)
    activeProfiles, \* Manager::_activeProfiles
    allGroups,      \* Event's registry of all groups
    signals,        \* Manager::_signals (the events holding a subscription)
    loadAllowed,    \* Manager::_loadAllowed
    ld,             \* the frames of sighupHandler() / load(): position and locals
    reloadHist      \* the last call of load(): the live state it started from, its outcome

VARIABLES
    \* ---- Manager: timers ----
    timers,         \* Manager::_timers : sequence of timer entries
    te,             \* the frame of timerExpired(): position, the entry it was bound to
    timerHist       \* what the last step on the timer list did

VARIABLES
    \* ---- Manager: services cache ----
    servTree,       \* Manager::_servTree : path -> service -> (owned, interfaces)
    servLast        \* the last call on the services cache

VARIABLES
    \* ---- Manager: signal dispatch ----
    sig             \* the frame of handleSignal(): packages, position, message, trace

VARIABLES
    \* ---- monitor::Fan ----
    fanFunctional,          \* Fan::_functional
    numSensorFailsForNonFunc, \* Fan::_numSensorFailsForNonFunc
    sensorFunctional,       \* TachSensor::functional() of each sensor
    timerRunning,           \* TachSensor::timerRunning() of each sensor
    sensorInput,            \* TachSensor::getInput() of each sensor
    inventory,              \* Functional as the inventory last accepted it
    lastSeen,               \* per sensor: the range of the last update the fan processed
    fanLast                 \* the last fan monitor step

VARIABLES
    \* ---- Manager: static helpers called by the loader and the actions ----
    icLast                  \* the last call of Manager::inConfig and what it returned

VARIABLES
    \* ---- Manager: objects cache and parameters ----
    objects,                \* Manager::_objects : path -> interface -> property -> value
    parameters,             \* Manager::_parameters : name -> value
    objLast                 \* the last call on the objects cache and what it returned

VARIABLES
    \* ---- Manager: power state callback ----
    pwr                     \* the last powerStateChanged call and the calls it made

VARIABLES
    \* ---- Zone: thermal mode and persisted properties ----
    propsPersisted,         \* Zone::_propsPersisted : interface -> list of property names
    current,                \* ThermalObject::current()
    supported,              \* ThermalObject::supported()
    savedMode,              \* contents of the CurrentMode persist file ("": no file)
    thermMarked,            \* the (interface, property) pairs setPersisted was called for
    thermLast               \* the last thermal operation and what it returned

VARIABLES
    \* ---- Manager: cache refresh of a group ----
    grp                     \* the addGroup calls in progress or last made, member by member

VARIABLES
    \* ---- monitor::Fan: the range test ----
    oor                     \* an outOfRange call: its sensor's readings and what it returned

zoneVars == <<fullSpeed, floor, target, floorChange, incDelay, incDeadline, decRequest, now,
              zoneLast>>
loadVars == <<zones, events, profiles, activeProfiles, allGroups, signals, loadAllowed, ld,
              reloadHist>>
timerVars == <<timers, te, timerHist>>
servVars == <<servTree, servLast>>
sigVars == <<sig>>
fanVars == <<fanFunctional, numSensorFailsForNonFunc, sensorFunctional, timerRunning,
             sensorInput, inventory, lastSeen, fanLast>>
callVars == <<icLast>>
objVars == <<objects, parameters, objLast>>
pwrVars == <<pwr>>
grpVars == <<grp>>
oorVars == <<oor>>
thermVars == <<propsPersisted, current, supported, savedMode, thermMarked, thermLast>>

vars == <<zoneVars, loadVars, timerVars, servVars, sigVars, fanVars, callVars, objVars, pwrVars, thermVars, grpVars, oorVars>>

notZone == <<loadVars, timerVars, servVars, sigVars, fanVars, callVars, objVars, pwrVars, thermVars, grpVars, oorVars>>
notLoad == <<zoneVars, te, timerHist, servVars, sigVars, fanVars, callVars, objVars, pwrVars, thermVars, grpVars, oorVars>>
notTimer == <<zoneVars, loadVars, servVars, sigVars, fanVars, callVars, objVars, pwrVars, thermVars, grpVars, oorVars>>
notServ == <<zoneVars, loadVars, timerVars, sigVars, fanVars, callVars, objVars, pwrVars, thermVars, grpVars, oorVars>>
notSig == <<zoneVars, loadVars, timerVars, servVars, fanVars, callVars, objVars, pwrVars, thermVars, grpVars, oorVars>>
notCall == <<zoneVars, loadVars, timerVars, servVars, sigVars, fanVars, objVars, pwrVars, thermVars, grpVars, oorVars>>
notObj == <<zoneVars, loadVars, timerVars, servVars, sigVars, fanVars, callVars, pwrVars, thermVars, grpVars, oorVars>>
notTherm == <<zoneVars, loadVars, timerVars, servVars, sigVars, fanVars, callVars, objVars, pwrVars, grpVars, oorVars>>
notGrp == <<zoneVars, loadVars, sigVars, fanVars, callVars, pwrVars, thermVars, parameters,
           objLast, servLast, oorVars>>
notOor == <<zoneVars, loadVars, timerVars, servVars, sigVars, fanVars, callVars, objVars, pwrVars, thermVars, grpVars>>
notFan == <<zoneVars, loadVars, timerVars, servVars, sigVars, callVars, objVars, pwrVars, thermVars, grpVars, oorVars>>

(***************************************************************************)
(* Bounds                                                                  *)
(***************************************************************************)
\* speeds, floors and deltas range over 0..MaxSpeed
MaxSpeed == 3
\* the clock stops at MaxTime
MaxTime == 2
\* entries in the timer list
MaxTimers == 2
\* actions of a timer entry or a handler package
MaxActions == 2
\* handler packages on one message
MaxPkgs == 2
\* tach sensors of the monitored fan
NumSensors == 2

Speeds == 0..MaxSpeed
FloorKeys == {"k1", "k2"}

Min(a, b) == IF a <= b THEN a ELSE b

SeqRange(s) == {s[i] : i \in 1..Len(s)}

(***************************************************************************)
(* Zone                                                                    *)
(***************************************************************************)
NoZoneOp == [op |-> "none", arg |-> 0, allowed |-> FALSE, preFloor |-> 0, preTarget |-> 0]

\* The increase delays of the configurations checked: absent (0) or longer
\* than the time checked.
IncDelays == {0, MaxTime + 1}

\* Zone::Zone: the increase delay is 0 unless the JSON gives one, setFullSpeed
\* makes the target the full speed, setDefaultFloor makes the floor the
\* default floor.
ZoneCtor(fs, df, delay) ==
    /\ fullSpeed = fs
    /\ target = fs
    /\ floor = df
    /\ floorChange = <<>>
    /\ incDelay = delay
    /\ incDeadline = 0
    /\ decRequest = 0
    /\ now = 0
    /\ zoneLast = NoZoneOp

\* The zones of the configurations checked: default_floor <= full_speed.
ZoneInit == \E fs \in 1..MaxSpeed : \E df \in 0..fs : \E delay \in IncDelays : ZoneCtor(fs, df, delay)

ZoneIdle == ZoneCtor(1, 0, 0)

\* setFloor going ahead when some entry of _floorChange is true.
FloorChangeAnyAllowed == \E k \in DOMAIN floorChange : floorChange[k]

\* The predicate of Zone::setFloor: every entry of _floorChange is true.
FloorChangeAllowed == \A k \in DOMAIN floorChange : floorChange[k]

\* Zone::requestIncrease: the body is empty, the target is left as it is.
RequestIncreaseTarget(t, delta) == t

\* Zone::requestIncrease called as an operation of its own.
RequestIncrease(delta) ==
    /\ target' = RequestIncreaseTarget(target, delta)
    /\ zoneLast' = [op |-> "requestIncrease", arg |-> delta, allowed |-> TRUE,
                    preFloor |-> floor, preTarget |-> target]
    /\ UNCHANGED <<fullSpeed, floor, floorChange, incDelay, incDeadline, decRequest, now>>
    /\ UNCHANGED notZone

\* Zone::setFloor.
SetFloor(f) ==
    /\ IF FloorChangeAllowed
          THEN /\ floor' = f
               /\ target' = IF target < f
                               THEN RequestIncreaseTarget(target, f - target)
                               ELSE target
          ELSE UNCHANGED <<floor, target>>
    /\ zoneLast' = [op |-> "setFloor", arg |-> f, allowed |-> FloorChangeAllowed,
                    preFloor |-> floor, preTarget |-> target]
    /\ UNCHANGED <<fullSpeed, floorChange, incDelay, incDeadline, decRequest, now>>
    /\ UNCHANGED notZone

\* set_floor_change_source(key, bool): sets one gate of the floor_change map.
SetFloorChange(k, b) ==
    /\ floorChange' = [x \in DOMAIN floorChange \cup {k} |->
                          IF x = k THEN b ELSE floorChange[x]]
    /\ zoneLast' = [op |-> "setFloorChange", arg |-> 0, allowed |-> TRUE,
                    preFloor |-> floor, preTarget |-> target]
    /\ UNCHANGED <<fullSpeed, floor, target, incDelay, incDeadline, decRequest, now>>
    /\ UNCHANGED notZone

\* request_decrease(delta): keeps the smallest decrease requested in the interval.
RequestDecrease(delta) ==
    /\ decRequest' = IF decRequest = 0 THEN delta ELSE Min(decRequest, delta)
    /\ zoneLast' = [op |-> "requestDecrease", arg |-> delta, allowed |-> TRUE,
                    preFloor |-> floor, preTarget |-> target]
    /\ UNCHANGED <<fullSpeed, floor, target, floorChange, incDelay, incDeadline, now>>
    /\ UNCHANGED notZone

\* A decrease pass that takes the whole decrease whatever the floor is.
DecreasePassUnfloored ==
    IF decRequest > 0 /\ now >= incDeadline /\ target >= decRequest
       THEN target - decRequest
       ELSE target

\* The decrease pass of the zone's repeating timer: no decrease applies
\* while now < increase_deadline or when none was requested; one that would
\* pass the floor stops at the floor.
DecreasePassTarget ==
    IF decRequest > 0 /\ now >= incDeadline
       THEN IF target - decRequest >= floor THEN target - decRequest ELSE floor
       ELSE target

DecTimerExpired ==
    /\ target' = DecreasePassTarget
    /\ decRequest' = 0
    /\ zoneLast' = [op |-> "decTimer", arg |-> decRequest, allowed |-> TRUE,
                    preFloor |-> floor, preTarget |-> target]
    /\ UNCHANGED <<fullSpeed, floor, floorChange, incDelay, incDeadline, now>>
    /\ UNCHANGED notZone

\* Time passes on the event loop.
ZoneTick ==
    /\ now < MaxTime
    /\ now' = now + 1
    /\ UNCHANGED <<fullSpeed, floor, target, floorChange,
                   incDelay, incDeadline, decRequest, zoneLast>>
    /\ UNCHANGED notZone

NextZone ==
    \/ \E f \in Speeds : SetFloor(f)
    \/ \E d \in 1..MaxSpeed : RequestIncrease(d)
    \/ \E d \in 1..MaxSpeed : RequestDecrease(d)
    \/ \E k \in FloorKeys, b \in BOOLEAN : SetFloorChange(k, b)
    \/ DecTimerExpired
    \/ ZoneTick

(***************************************************************************)
(* Claims on the zone                                                      *)
(***************************************************************************)

\* C1: in every reachable state of a zone floor <= target <= full_speed.
C1_TargetBounds == floor <= target /\ target <= fullSpeed

\* C2: set_floor(f) with every floor_change gate true and f above the current
\* target returns with floor = f and target = f.
C2_FloorRaisesTarget ==
    (zoneLast.op = "setFloor" /\ zoneLast.allowed /\ zoneLast.arg > zoneLast.preTarget)
        => (floor = zoneLast.arg /\ target = zoneLast.arg)

\* A step of the zone operation named, as opposed to time passing.
ZoneCall(op) == zoneLast'.op = op /\ now' = now

\* C17: request_increase(delta) with delta > 0 sets the target to
\* min(target + delta, full_speed) when that is above the target and sets
\* increase_deadline to now + increase_delay; otherwise the target is unchanged.
C17_RequestIncrease ==
    [][ (ZoneCall("requestIncrease") /\ zoneLast'.arg > 0)
            => LET newTarget == Min(target + zoneLast'.arg, fullSpeed) IN
               IF newTarget > target
                  THEN target' = newTarget /\ incDeadline' = now + incDelay
                  ELSE target' = target ]_vars

C19_DecreasePass ==
    [][ /\ ZoneCall("decTimer")
            => /\ target' >= target - decRequest
               /\ target' < target => target' >= floor
               /\ decRequest = 0 => target' >= target
               /\ decRequest' = 0
        /\ ZoneCall("requestDecrease")
            => /\ decRequest' <= zoneLast'.arg
               /\ decRequest > 0 => decRequest' <= decRequest ]_vars

\* C19 witness: a pass has lowered the target by the request accumulated,
\* to a value above the floor, and the accumulator is back at 0.
C19_Witness ==
    /\ zoneLast.op = "decTimer"
    /\ zoneLast.arg > 0
    /\ target = zoneLast.preTarget - zoneLast.arg
    /\ target > floor
    /\ decRequest = 0

\* C20: set_floor(f) called while an entry of floor_change is false leaves
\* the floor and the target as they were; when every entry is true (an empty
\* map included) the floor becomes f.
C20_SetFloorGate ==
    [][ ZoneCall("setFloor")
            => IF \E k \in DOMAIN floorChange : ~floorChange[k]
                  THEN floor' = floor /\ target' = target
                  ELSE floor' = zoneLast'.arg ]_vars

\* C20 witness: set_floor(f) with f above the target has been refused with
\* one gate true and one false.
C20_Witness ==
    /\ zoneLast.op = "setFloor"
    /\ ~zoneLast.allowed
    /\ zoneLast.arg > target
    /\ floor = zoneLast.preFloor
    /\ zoneLast.arg # floor
    /\ \E j, k \in DOMAIN floorChange : floorChange[j] /\ ~floorChange[k]

(***************************************************************************)
(* Zone: thermal mode and persisted properties                             *)
(***************************************************************************)
thermModeIntf == "xyz.openbmc_project.Control.ThermalMode"
currentProp == "Current"
supportedProp == "Supported"

PersistIntfs == {thermModeIntf, "other.Intf"}
PersistProps == {currentProp, supportedProp}

\* The mode strings the checks use, in several spellings.
ModeStrings == {"default", "Default", "DEFAULT", "custom", "Custom", "CUSTOM", "MAX"}

\* std::transform(..., toupper) on a mode string.
ToUpper(s) ==
    CASE s \in {"default", "Default", "DEFAULT"} -> "DEFAULT"
      [] s \in {"custom", "Custom", "CUSTOM"} -> "CUSTOM"
      [] OTHER -> s

\* The "Supported" lists of the configurations checked.
SupportedLists == {<<>>, <<"Default">>, <<"default", "CUSTOM">>, <<"Custom", "MAX">>}

NoThermOp == [op |-> "none", intf |-> "", arg |-> "", ret |-> "", saved |-> FALSE]

ThermCtor(sup, cur) ==
    /\ propsPersisted = <<>>
    /\ current = cur
    /\ supported = sup
    /\ savedMode = ""
    /\ thermMarked = {}
    /\ thermLast = NoThermOp

ThermInit == \E sup \in SupportedLists : \E cur \in {"Default", "CUSTOM"} : ThermCtor(sup, cur)

ThermIdle == ThermCtor(<<>>, "Default")

\* Zone::isPersisted.
isPersisted(pp, intf, prop) ==
    IF intf \notin DOMAIN pp
       THEN FALSE
       ELSE \E i \in 1..Len(pp[intf]) : pp[intf][i] = prop

\* Zone::setPersisted: _propsPersisted[intf] is created by operator[], and
\* the property is appended when find_if finds it in the list.
PersistedAfterSet(pp, intf, prop) ==
    LET l == IF intf \in DOMAIN pp THEN pp[intf] ELSE <<>> IN
    [i \in DOMAIN pp \cup {intf} |->
        IF i = intf THEN (IF \E k \in 1..Len(l) : l[k] = prop THEN Append(l, prop) ELSE l)
                    ELSE pp[i]]

SetPersisted(intf, prop) ==
    /\ propsPersisted' = PersistedAfterSet(propsPersisted, intf, prop)
    /\ thermMarked' = thermMarked \cup {<<intf, prop>>}
    /\ thermLast' = [op |-> "setPersisted", intf |-> intf, arg |-> prop, ret |-> "",
                     saved |-> FALSE]
    /\ UNCHANGED <<current, supported, savedMode>>
    /\ UNCHANGED notTherm

\* The test of Zone::current: the uppercased value differs from the mode and
\* equals the uppercased copy of a supported entry.
ModeAccepted(value, cur, sup) ==
    /\ value # cur
    /\ \E i \in 1..Len(sup) : value = ToUpper(sup[i])

\* Zone::current, with saveCurrentMode writing the new mode to the file.
Current(v) ==
    LET value == ToUpper(v)
        changes == ModeAccepted(value, current, supported)
        saves == changes /\ isPersisted(propsPersisted, thermModeIntf, currentProp)
    IN
    /\ current' = IF changes THEN value ELSE current
    /\ savedMode' = IF saves THEN value ELSE savedMode
    /\ thermLast' = [op |-> "current", intf |-> "", arg |-> v,
                     ret |-> IF changes THEN value ELSE current, saved |-> saves]
    /\ UNCHANGED <<propsPersisted, supported, thermMarked>>
    /\ UNCHANGED notTherm

NextTherm ==
    \/ \E i \in PersistIntfs, q \in PersistProps : SetPersisted(i, q)
    \/ \E v \in ModeStrings : Current(v)

(***************************************************************************)
(* Claims on the thermal mode                                              *)
(***************************************************************************)

\* C21: after set_persisted(intf, prop) is_persisted(intf, prop) is true, and
\* the property is recorded at most once however often it is set.
C21_SetPersisted ==
    /\ \A pr \in thermMarked : isPersisted(propsPersisted, pr[1], pr[2])
    /\ \A i \in DOMAIN propsPersisted :
          \A j, k \in 1..Len(propsPersisted[i]) :
              propsPersisted[i][j] = propsPersisted[i][k] => j = k

\* C22: current(v) makes the uppercased v the mode only when it differs from
\* the mode and equals, ignoring case, a supported entry, and leaves the mode
\* alone otherwise; it returns the mode in force after the call; the mode is
\* written to the persist file exactly when it changed and Current has been
\* marked persisted.
C22_Current ==
    [][ thermLast'.op = "current"
            => LET up == ToUpper(thermLast'.arg)
                   ok == /\ up # current
                         /\ \E i \in 1..Len(supported) : ToUpper(supported[i]) = up
               IN /\ current' = IF ok THEN up ELSE current
                  /\ thermLast'.ret = current'
                  /\ thermLast'.saved <=> (current' # current
                                            /\ <<thermModeIntf, currentProp>> \in thermMarked)
                  /\ thermLast'.saved => savedMode' = current'
                  /\ ~thermLast'.saved => savedMode' = savedMode ]_vars

(***************************************************************************)
(* Manager: services cache                                                 *)
(***************************************************************************)
Paths == {"/a", "/b"}
Servs == {"s1", "s2"}
Intfs == {"i1", "i2"}

NoServOp == [op |-> "none", path |-> "", serv |-> "", intf |-> "", owned |-> FALSE,
             flipped |-> {}]

ServInit ==
    /\ servTree = <<>>
    /\ servLast = NoServOp

\* std::find on an interface list.
HasIntf(intfs, intf) == \E i \in 1..Len(intfs) : intfs[i] = intf

\* _servTree[path][serv]: the entry, created empty when the path or the
\* service is not cached.
ServEntry(tree, path, serv) ==
    IF path \in DOMAIN tree /\ serv \in DOMAIN tree[path]
       THEN tree[path][serv]
       ELSE [owned |-> FALSE, intfs |-> <<>>]

PutServ(tree, path, serv, entry) ==
    [p \in DOMAIN tree \cup {path} |->
        IF p = path
           THEN [s \in (IF p \in DOMAIN tree THEN DOMAIN tree[p] ELSE {}) \cup {serv} |->
                    IF s = serv THEN entry ELSE tree[p][s]]
           ELSE tree[p]]

\* setOwner, first part: the owner state of the object given.
SetOwnerOnPath(tree, path, serv, intf, isOwned) ==
    LET ownIntf == ServEntry(tree, path, serv) IN
    PutServ(tree, path, serv,
            [owned |-> isOwned,
             intfs |-> IF HasIntf(ownIntf.intfs, intf) THEN ownIntf.intfs
                                                       ELSE Append(ownIntf.intfs, intf)])

\* setOwner without its second part.
SetOwnerOnPathOnly(tree, path, serv, intf, isOwned) == tree

\* setOwner, second part: every other path's entry of the same service that
\* lists the interface.
SetOwnerOnOthers(tree, path, serv, intf, isOwned) ==
    [p \in DOMAIN tree |->
        IF p = path
           THEN tree[p]
           ELSE [s \in DOMAIN tree[p] |->
                    IF s = serv /\ HasIntf(tree[p][s].intfs, intf)
                       THEN [tree[p][s] EXCEPT !.owned = isOwned]
                       ELSE tree[p][s]]]

\* Manager::setOwner.
SetOwner(path, serv, intf, isOwned) ==
    /\ servTree' = SetOwnerOnOthers(SetOwnerOnPath(servTree, path, serv, intf, isOwned),
                                    path, serv, intf, isOwned)
    /\ servLast' = [op |-> "setOwner", path |-> path, serv |-> serv, intf |-> intf,
                    owned |-> isOwned,
                    flipped |-> {p \in DOMAIN servTree \ {path} :
                                    /\ serv \in DOMAIN servTree[p]
                                    /\ HasIntf(servTree[p][serv].intfs, intf)
                                    /\ servTree[p][serv].owned # isOwned}]
    /\ UNCHANGED notServ

\* addServices replacing the cached interface list by the list of the reply.
AppendReplaces(cached, found) == found

\* addServices, service found in cache: the interfaces of the bus's list not
\* yet cached are appended.
RECURSIVE AppendUnseen(_, _)
AppendUnseen(cached, found) ==
    IF found = <<>> THEN cached
    ELSE AppendUnseen(IF HasIntf(cached, Head(found)) THEN cached
                                                     ELSE Append(cached, Head(found)),
                      Tail(found))

\* addServices: what one (path, service) of the subtree reply does to the cache.
AddServiceEntry(tree, path, serv, found, intf) ==
    IF path \in DOMAIN tree /\ serv \in DOMAIN tree[path]
       THEN PutServ(tree, path, serv,
                    [tree[path][serv] EXCEPT !.intfs = AppendUnseen(@, found)])
       ELSE PutServ(tree, path, serv, [owned |-> TRUE, intfs |-> <<intf>>])

\* The (path, service) pairs of a subtree reply in map order, folded into the
\* cache.
RECURSIVE AddServicePairs(_, _, _, _)
AddServicePairs(tree, pairs, subTree, intf) ==
    IF pairs = {} THEN tree
    ELSE LET pr == CHOOSE x \in pairs : TRUE IN
         AddServicePairs(AddServiceEntry(tree, pr[1], pr[2], subTree[pr[1]][pr[2]], intf),
                         pairs \ {pr}, subTree, intf)

\* Manager::addServices with the reply of getSubTreeRaw.
AddServices(intf, subTree) ==
    /\ servTree' = AddServicePairs(servTree,
                                   {<<p, s>> \in Paths \X Servs :
                                        p \in DOMAIN subTree /\ s \in DOMAIN subTree[p]},
                                   subTree, intf)
    /\ servLast' = [op |-> "addServices", path |-> "", serv |-> "", intf |-> intf,
                    owned |-> FALSE, flipped |-> {}]
    /\ UNCHANGED notServ

\* Replies of the mapper for an interface: the services found on some paths,
\* each with an interface list that holds the interface asked for.
IntfListsWith(intf) == {<<intf>>} \cup {<<intf, o>> : o \in Intfs \ {intf}}

SubTrees(intf) ==
    {[p \in {path} |-> [s \in ss |-> il]] :
        path \in Paths, ss \in SUBSET Servs \ {{}}, il \in IntfListsWith(intf)}

NextServ ==
    \/ \E p \in Paths, s \in Servs, i \in Intfs, o \in BOOLEAN : SetOwner(p, s, i, o)
    \/ \E i \in Intfs : \E subTree \in SubTrees(i) : AddServices(i, subTree)

(***************************************************************************)
(* Claims on the services cache                                            *)
(***************************************************************************)

\* C6: after set_owner(p1, s, i, owned) every cached entry (p, s) whose
\* interface list holds i, the one on p1 included, has its owned flag equal
\* to owned; the entry on p1 exists and lists i.
C6_OwnerCascade ==
    servLast.op = "setOwner" =>
        /\ servLast.path \in DOMAIN servTree
        /\ servLast.serv \in DOMAIN servTree[servLast.path]
        /\ HasIntf(servTree[servLast.path][servLast.serv].intfs, servLast.intf)
        /\ \A p \in DOMAIN servTree :
              (servLast.serv \in DOMAIN servTree[p]
               /\ HasIntf(servTree[p][servLast.serv].intfs, servLast.intf))
                  => servTree[p][servLast.serv].owned = servLast.owned

\* C6 witness: a set_owner has returned that found the service cached on
\* another path for the same interface with the other owner state.
C6_Witness ==
    /\ servLast.op = "setOwner"
    /\ servLast.flipped # {}

(***************************************************************************)
(* Manager: hasOwner                                                       *)
(***************************************************************************)
\* The services of a path in the order of the std::map.
ServKeys == <<"s1", "s2">>

\* Manager::hasOwner: the owner state of the first service cached on the path
\* that lists the interface; false when the path is not cached or no service
\* on it lists the interface.
HasOwner(tree, path, intf) ==
    IF path \notin DOMAIN tree
       THEN FALSE
       ELSE LET hits == {k \in 1..Len(ServKeys) :
                            /\ ServKeys[k] \in DOMAIN tree[path]
                            /\ HasIntf(tree[path][ServKeys[k]].intfs, intf)}
            IN IF hits = {}
                  THEN FALSE
                  ELSE tree[path][ServKeys[CHOOSE k \in hits : \A j \in hits : k <= j]].owned

\* hasOwner(path, intf) is called and returns.
HasOwnerCall(path, intf) ==
    /\ servLast' = [op |-> "hasOwner", path |-> path, serv |-> "", intf |-> intf,
                    owned |-> HasOwner(servTree, path, intf), flipped |-> {}]
    /\ UNCHANGED servTree
    /\ UNCHANGED notServ

NextOwner ==
    \/ \E p \in Paths, s \in Servs, i \in Intfs, o \in BOOLEAN : SetOwner(p, s, i, o)
    \/ \E p \in Paths, i \in Intfs : HasOwnerCall(p, i)

\* C33: has_owner(path, intf) called after set_owner(path, serv, intf, owned)
\* returns owned, whatever the services cache held before, also when another
\* service cached on the path lists intf; has_owner returns false when the
\* path is not cached or no service on it lists the interface.
C33_HasOwnerAfterSet ==
    [][ servLast'.op = "hasOwner"
            => /\ (servLast.op = "setOwner" /\ servLast.path = servLast'.path
                   /\ servLast.intf = servLast'.intf)
                     => servLast'.owned = servLast.owned
               /\ (servLast'.path \notin DOMAIN servTree
                   \/ \A s \in DOMAIN servTree[servLast'.path] :
                         ~HasIntf(servTree[servLast'.path][s].intfs, servLast'.intf))
                     => servLast'.owned = FALSE ]_vars
(***************************************************************************)
(* Manager: configuration files, load() and the SIGHUP reload              *)
(***************************************************************************)

\* The configuration files a load() may find on disk.  Zones, fans and events
\* are listed in the order of their keys (name, profiles), the order of the
\* std::map the loader returns.
CfgA ==
    [profiles |-> <<>>,
     zones    |-> <<[name |-> "z1", profiles |-> {}, fullSpeed |-> 3, poweronTarget |-> 2]>>,
     fans     |-> <<[name |-> "f1", zone |-> "z1", profiles |-> {}, target |-> 2]>>,
     groups   |-> {"g1"},
     events   |-> <<[name |-> "e1", profiles |-> {}, timer |-> "oneshot", signal |-> TRUE, actions |-> 1]>>]

CfgB ==
    [profiles |-> <<[name |-> "p1", active |-> TRUE], [name |-> "p2", active |-> FALSE]>>,
     zones    |-> <<[name |-> "z1", profiles |-> {"p1"}, fullSpeed |-> 3, poweronTarget |-> 2],
                    [name |-> "z1", profiles |-> {"p2"}, fullSpeed |-> 2, poweronTarget |-> 1],
                    [name |-> "z2", profiles |-> {}, fullSpeed |-> 2, poweronTarget |-> 1]>>,
     fans     |-> <<[name |-> "f1", zone |-> "z1", profiles |-> {"p1"}, target |-> 1],
                    [name |-> "f2", zone |-> "z2", profiles |-> {"p1"}, target |-> 1],
                    [name |-> "f3", zone |-> "z2", profiles |-> {}, target |-> 0],
                    [name |-> "f4", zone |-> "z1", profiles |-> {"p2"}, target |-> 1]>>,
     groups   |-> {"g1", "g2"},
     events   |-> <<[name |-> "e1", profiles |-> {}, timer |-> "repeating", signal |-> FALSE, actions |-> 2],
                    [name |-> "e2", profiles |-> {"p1"}, timer |-> "oneshot", signal |-> TRUE, actions |-> 1],
                    [name |-> "e3", profiles |-> {"p2"}, timer |-> "oneshot", signal |-> TRUE, actions |-> 1]>>]

CfgC ==
    [profiles |-> <<[name |-> "p2", active |-> TRUE]>>,
     zones    |-> <<>>,
     fans     |-> <<>>,
     groups   |-> {},
     events   |-> <<[name |-> "e3", profiles |-> {"p2"}, timer |-> "none", signal |-> TRUE, actions |-> 1]>>]

ConfigFiles == <<CfgA, CfgB, CfgC>>

\* The steps of load() that can raise std::runtime_error.
LoadSteps == {"profiles", "zones", "fans", "events", "zoneEnable", "eventEnable"}

KeyOf(e) == <<e.name, e.profiles>>

\* inConfig deciding by the input's profiles alone.
inConfigActiveOnly(input, comp) ==
    input[1] = comp[1] /\ (input[2] = {} \/ \E p \in input[2] : p \in activeProfiles)

\* inConfig without the test of the active profiles.
inConfigAnyCommon(input, comp) ==
    input[1] = comp[1] /\ (input[2] = {} \/ input[2] \cap comp[2] # {})

\* Manager::inConfig, reading the static _activeProfiles.
inConfig(input, comp) ==
    IF input[1] # comp[1]
       THEN FALSE
       ELSE IF input[2] = {}
               THEN TRUE
               ELSE \E lProfile \in input[2] :
                        \E rProfile \in comp[2] :
                            IF lProfile # rProfile THEN FALSE
                                                   ELSE lProfile \in activeProfiles

\* getConfig<T>: an entry naming profiles is built only if one of them is active.
ProfileIncluded(e) ==
    e.profiles = {} \/ \E p \in e.profiles : p \in activeProfiles

LoadedEntries(entries) == SelectSeq(entries, ProfileIncluded)

\* getConfig<Zone>: the zones built from the file; a new zone's target is its
\* full speed (Zone::setFullSpeed).
LoadedZones(cfg) ==
    LET zs == LoadedEntries(cfg.zones) IN
    [k \in {KeyOf(zs[i]) : i \in 1..Len(zs)} |->
        LET z == CHOOSE e \in SeqRange(zs) : KeyOf(e) = k IN
        [fullSpeed |-> z.fullSpeed, poweronTarget |-> z.poweronTarget,
         target |-> z.fullSpeed, fans |-> {}, enabled |-> FALSE]]

\* std::find_if over the zones map: the first zone, in key order, the fan's
\* key is compatible with (0: none).
FindZone(fan, cfg, zs) ==
    LET fanProfile == <<fan.zone, fan.profiles>>
        hits == {i \in 1..Len(cfg.zones) :
                    /\ KeyOf(cfg.zones[i]) \in DOMAIN zs
                    /\ inConfig(fanProfile, KeyOf(cfg.zones[i]))}
    IN IF hits = {} THEN 0 ELSE CHOOSE i \in hits : \A j \in hits : i <= j

\* The body of the loop of load() that moves one fan into its zone.
AddFanToZone(fan, cfg, zs) ==
    LET i == FindZone(fan, cfg, zs) IN
    IF i = 0
       THEN zs
       ELSE LET k == KeyOf(cfg.zones[i])
                z == zs[k]
                t == IF z.target # fan.target /\ fan.target # 0 THEN fan.target ELSE z.target
            IN [zs EXCEPT ![k] = [z EXCEPT !.target = t, !.fans = z.fans \cup {fan.name}]]

RECURSIVE AssignFans(_, _, _)
AssignFans(fans, cfg, zs) ==
    IF fans = <<>> THEN zs
                   ELSE AssignFans(Tail(fans), cfg, AddFanToZone(Head(fans), cfg, zs))

\* getConfig<Event>: the events built from the file.
LoadedEvents(cfg) ==
    LET es == LoadedEntries(cfg.events) IN
    [k \in {KeyOf(es[i]) : i \in 1..Len(es)} |->
        LET e == CHOOSE x \in SeqRange(es) : KeyOf(x) = k IN
        [timer |-> e.timer, signal |-> e.signal, enabled |-> FALSE]]

\* Zone::enable on every zone of the map.
EnabledAll(m) == [k \in DOMAIN m |-> [m[k] EXCEPT !.enabled = TRUE]]

\* Manager::addTimer: a new entry, armed, at the back of _timers.
AddTimerEntry(ts, type, name, nActions) ==
    Append(ts, [type |-> type, name |-> name, armed |-> TRUE, actions |-> nActions])

\* Event::enable on every event, in key order: a timer trigger adds a timer
\* entry named after the event, a signal trigger a subscription.
RECURSIVE TimersOfEvents(_, _)
TimersOfEvents(es, ts) ==
    IF es = <<>> THEN ts
    ELSE TimersOfEvents(Tail(es),
                        IF Head(es).timer = "none" THEN ts
                        ELSE AddTimerEntry(ts, Head(es).timer, Head(es).name, Head(es).actions))

SignalsOfEvents(es) == {es[i].name : i \in {j \in 1..Len(es) : es[j].signal}}

LdIdle ==
    [pc |-> "idle", caller |-> "none", cfg |-> 0, fail |-> "none",
     savedProfiles |-> {}, savedActive |-> {}, zones |-> <<>>, events |-> <<>>,
     groups |-> {}]

\* What a reload is to leave untouched when it fails.
LiveConfig ==
    [zones |-> zones, events |-> events, profiles |-> profiles,
     activeProfiles |-> activeProfiles, allGroups |-> allGroups]

\* Manager::Manager: _loadAllowed(true), every container empty.
LoadInit ==
    /\ zones = <<>>
    /\ events = <<>>
    /\ profiles = {}
    /\ activeProfiles = {}
    /\ allGroups = {}
    /\ signals = {}
    /\ loadAllowed = TRUE
    /\ ld = LdIdle
    /\ reloadHist = [call |-> "none", outcome |-> "none", prev |-> "none",
                     pre |-> LiveConfig, preTimers |-> <<>>, preSignals |-> {}]

\* Manager::sighupHandler up to the call of load(): the profiles are swapped
\* into locals, _loadAllowed is set.  The signal is served by the event loop,
\* which runs once the start-up load() has returned.
SighupHandler(c, f) ==
    /\ ld.pc = "idle"
    /\ reloadHist.call # "none"
    /\ profiles' = {}
    /\ activeProfiles' = {}
    /\ loadAllowed' = TRUE
    /\ ld' = [LdIdle EXCEPT !.pc = "load", !.caller = "sighup", !.cfg = c, !.fail = f,
                            !.savedProfiles = profiles, !.savedActive = activeProfiles]
    /\ reloadHist' = [call |-> "sighup", outcome |-> "running", prev |-> reloadHist.outcome,
                      pre |-> LiveConfig, preTimers |-> timers, preSignals |-> signals]
    /\ UNCHANGED <<zones, events, allGroups, timers, signals>>
    /\ UNCHANGED notLoad

\* Manager::load called directly (the daemon's start-up).
LoadCall(c, f) ==
    /\ ld.pc = "idle"
    /\ ld' = [LdIdle EXCEPT !.pc = "load", !.caller = "main", !.cfg = c, !.fail = f]
    /\ reloadHist' = [call |-> "load", outcome |-> "running", prev |-> reloadHist.outcome,
                      pre |-> LiveConfig, preTimers |-> timers, preSignals |-> signals]
    /\ UNCHANGED <<zones, events, profiles, activeProfiles, allGroups, timers, signals,
                   loadAllowed>>
    /\ UNCHANGED notLoad

\* Manager::load: the test of _loadAllowed.
LoadGuard ==
    /\ ld.pc = "load"
    /\ IF loadAllowed
          THEN /\ ld' = [ld EXCEPT !.pc = "setProfiles"]
               /\ UNCHANGED reloadHist
          ELSE /\ ld' = [ld EXCEPT !.pc = "return"]
               /\ reloadHist' = [reloadHist EXCEPT !.outcome = "skipped"]
    /\ UNCHANGED <<zones, events, profiles, activeProfiles, allGroups, timers, signals,
                   loadAllowed>>
    /\ UNCHANGED notLoad

\* Manager::setProfiles: _profiles is cleared, then filled from the file.
SetProfiles ==
    /\ ld.pc = "setProfiles"
    /\ LET cfg == ConfigFiles[ld.cfg] IN
       IF ld.fail = "profiles"
          THEN /\ profiles' = {}
               /\ UNCHANGED activeProfiles
               /\ ld' = [ld EXCEPT !.pc = "raise"]
          ELSE /\ profiles' = {cfg.profiles[i].name : i \in 1..Len(cfg.profiles)}
               /\ activeProfiles' = {cfg.profiles[i].name :
                                        i \in {j \in 1..Len(cfg.profiles) : cfg.profiles[j].active}}
               /\ ld' = [ld EXCEPT !.pc = "loadZones"]
    /\ UNCHANGED <<zones, events, allGroups, timers, signals, loadAllowed, reloadHist>>
    /\ UNCHANGED notLoad

\* load(): getConfig<Zone>.
LoadZones ==
    /\ ld.pc = "loadZones"
    /\ IF ld.fail = "zones"
          THEN ld' = [ld EXCEPT !.pc = "raise"]
          ELSE ld' = [ld EXCEPT !.pc = "loadFans", !.zones = LoadedZones(ConfigFiles[ld.cfg])]
    /\ UNCHANGED <<zones, events, profiles, activeProfiles, allGroups, timers, signals,
                   loadAllowed, reloadHist>>
    /\ UNCHANGED notLoad

\* load(): getConfig<Fan> and the move of each fan into its zone.
LoadFans ==
    /\ ld.pc = "loadFans"
    /\ LET cfg == ConfigFiles[ld.cfg] IN
       IF ld.fail = "fans"
          THEN ld' = [ld EXCEPT !.pc = "raise"]
          ELSE ld' = [ld EXCEPT !.pc = "loadEvents",
                                !.zones = AssignFans(LoadedEntries(cfg.fans), cfg, ld.zones)]
    /\ UNCHANGED <<zones, events, profiles, activeProfiles, allGroups, timers, signals,
                   loadAllowed, reloadHist>>
    /\ UNCHANGED notLoad

\* load(): the groups are saved and cleared, the events (and their groups)
\* loaded; if that raises the saved groups are put back.
LoadEvents ==
    /\ ld.pc = "loadEvents"
    /\ LET cfg == ConfigFiles[ld.cfg] IN
       IF ld.fail = "events"
          THEN /\ allGroups' = allGroups
               /\ ld' = [ld EXCEPT !.pc = "raise", !.groups = allGroups]
          ELSE /\ allGroups' = cfg.groups
               /\ ld' = [ld EXCEPT !.pc = "enableZones", !.groups = allGroups,
                                   !.events = LoadedEvents(cfg)]
    /\ UNCHANGED <<zones, events, profiles, activeProfiles, timers, signals, loadAllowed,
                   reloadHist>>
    /\ UNCHANGED notLoad

\* load(): _zones = std::move(zones), then enable() on each.
EnableZones ==
    /\ ld.pc = "enableZones"
    /\ IF ld.fail = "zoneEnable" /\ ld.zones # <<>>
          THEN /\ zones' = ld.zones
               /\ ld' = [ld EXCEPT !.pc = "raise"]
          ELSE /\ zones' = EnabledAll(ld.zones)
               /\ ld' = [ld EXCEPT !.pc = "clearTimers"]
    /\ UNCHANGED <<events, profiles, activeProfiles, allGroups, timers, signals, loadAllowed,
                   reloadHist>>
    /\ UNCHANGED notLoad

\* load(): _timers.clear().
TimersNotCleared == timers

TimersAfterClear == <<>>

\* load(): _timers.clear(); _signals.clear().
ClearTimers ==
    /\ ld.pc = "clearTimers"
    /\ timers' = TimersAfterClear
    /\ signals' = {}
    /\ ld' = [ld EXCEPT !.pc = "enableEvents"]
    /\ UNCHANGED <<zones, events, profiles, activeProfiles, allGroups, loadAllowed,
                   reloadHist>>
    /\ UNCHANGED notLoad

\* load(): _events = std::move(events), then enable() on each.
EnableEvents ==
    /\ ld.pc = "enableEvents"
    /\ LET es == LoadedEntries(ConfigFiles[ld.cfg].events) IN
       IF ld.fail = "eventEnable" /\ ld.events # <<>>
          THEN /\ events' = ld.events
               /\ UNCHANGED <<timers, signals>>
               /\ ld' = [ld EXCEPT !.pc = "raise"]
          ELSE /\ events' = EnabledAll(ld.events)
               /\ timers' = TimersOfEvents(es, timers)
               /\ signals' = signals \cup SignalsOfEvents(es)
               /\ ld' = [ld EXCEPT !.pc = "loadDone"]
    /\ UNCHANGED <<zones, profiles, activeProfiles, allGroups, loadAllowed, reloadHist>>
    /\ UNCHANGED notLoad

\* load(): _loadAllowed = false, the last statement.
LoadDone ==
    /\ ld.pc = "loadDone"
    /\ loadAllowed' = FALSE
    /\ ld' = [ld EXCEPT !.pc = "return"]
    /\ reloadHist' = [reloadHist EXCEPT !.outcome = "loaded"]
    /\ UNCHANGED <<zones, events, profiles, activeProfiles, allGroups, timers, signals>>
    /\ UNCHANGED notLoad

\* load() returns to its caller.
LoadReturn ==
    /\ ld.pc = "return"
    /\ ld' = LdIdle
    /\ UNCHANGED <<zones, events, profiles, activeProfiles, allGroups, timers, signals,
                   loadAllowed, reloadHist>>
    /\ UNCHANGED notLoad

\* sighupHandler's catch block: _loadAllowed = false.
LoadAllowedKept == loadAllowed

LoadAllowedAfterCatch == FALSE

\* The catch block of sighupHandler.
SighupCatch ==
    /\ ld.pc = "raise"
    /\ ld.caller = "sighup"
    /\ loadAllowed' = LoadAllowedAfterCatch
    /\ profiles' = ld.savedProfiles
    /\ activeProfiles' = ld.savedActive
    /\ ld' = LdIdle
    /\ reloadHist' = [reloadHist EXCEPT !.outcome = "failed"]
    /\ UNCHANGED <<zones, events, allGroups, timers, signals>>
    /\ UNCHANGED notLoad

\* A load() that raises at start-up has no handler: the daemon exits.
LoadAbort ==
    /\ ld.pc = "raise"
    /\ ld.caller = "main"
    /\ ld' = [ld EXCEPT !.pc = "terminated"]
    /\ reloadHist' = [reloadHist EXCEPT !.outcome = "terminated"]
    /\ UNCHANGED <<zones, events, profiles, activeProfiles, allGroups, timers, signals,
                   loadAllowed>>
    /\ UNCHANGED notLoad

\* Between two loads a getService() miss puts a service into the cache
\* (addServices with the reply of the mapper).
CachedReply == [p \in {"/a"} |-> [s \in {"s1"} |-> <<"i1">>]]

CacheUpdate ==
    /\ ld.pc = "idle"
    /\ reloadHist.call # "none"
    /\ servTree = <<>>
    /\ servTree' = AddServicePairs(servTree, {<<"/a", "s1">>}, CachedReply, "i1")
    /\ servLast' = [op |-> "addServices", path |-> "", serv |-> "", intf |-> "i1",
                    owned |-> FALSE, flipped |-> {}]
    /\ UNCHANGED <<zoneVars, loadVars, timerVars, sigVars, fanVars, callVars, objVars, pwrVars, thermVars, grpVars, oorVars>>

NextReload ==
    \/ CacheUpdate
    \/ \E c \in 1..Len(ConfigFiles), f \in LoadSteps \cup {"none"} : SighupHandler(c, f)
    \/ \E c \in 1..Len(ConfigFiles), f \in LoadSteps \cup {"none"} : LoadCall(c, f)
    \/ LoadGuard
    \/ SetProfiles
    \/ LoadZones
    \/ LoadFans
    \/ LoadEvents
    \/ EnableZones
    \/ ClearTimers
    \/ EnableEvents
    \/ LoadDone
    \/ LoadReturn
    \/ SighupCatch
    \/ LoadAbort

(***************************************************************************)
(* Claims on the reload                                                    *)
(***************************************************************************)

\* C3: after a reload triggered by SIGHUP has failed, the live zones (with
\* their fans), events, profiles, active profiles and group registry are what
\* they were before the reload.
C3_ReloadAtomic ==
    (ld.pc = "idle" /\ reloadHist.call = "sighup" /\ reloadHist.outcome = "failed")
        => LiveConfig = reloadHist.pre

\* Where load() is between its test of _loadAllowed and its last statement.
LoadingPcs == {"setProfiles", "loadZones", "loadFans", "loadEvents", "enableZones",
               "clearTimers", "enableEvents", "loadDone"}

\* C4: once a reload has failed load_allowed is false, and only the start of
\* a SIGHUP makes it true again; a load() called while it is false changes no
\* state; a SIGHUP has made it true when its load() begins, and a load() that
\* ran to its end has made it false.
C4_LoadAllowed ==
    /\ [](/\ (ld.pc = "idle" /\ reloadHist.outcome = "failed") => ~loadAllowed
          /\ (ld.caller = "sighup" /\ ld.pc \in LoadingPcs \cup {"load"}) => loadAllowed
          /\ reloadHist.outcome = "loaded" => ~loadAllowed
          /\ reloadHist.outcome = "skipped" =>
                /\ ~loadAllowed
                /\ LiveConfig = reloadHist.pre
                /\ timers = reloadHist.preTimers
                /\ signals = reloadHist.preSignals)
    /\ [][ /\ (~loadAllowed /\ loadAllowed')
               => (ld.pc = "idle" /\ ld'.pc = "load" /\ ld'.caller = "sighup")
           /\ (ld.pc = "load" /\ ~loadAllowed) => ld'.pc = "return" ]_vars

\* C4 witness: after a reload that failed, load() was called with
\* load_allowed false and has returned.
C4_Witness ==
    /\ ld.pc = "idle"
    /\ reloadHist.call = "load"
    /\ reloadHist.prev = "failed"
    /\ reloadHist.outcome = "skipped"
    /\ zones # <<>>

\* C11: in a reload that runs to its end no timer entry and no signal
\* subscription is left when the first event of the new set is enabled, so
\* the timers and subscriptions after it are those of the new events only;
\* and no step of load() removes or changes an entry of the services cache.
C11_ReloadClearsTimers ==
    /\ [](ld.pc = "enableEvents" => (timers = <<>> /\ signals = {}))
    /\ [][ /\ (ld.pc = "enableEvents" /\ ld'.pc = "loadDone")
               => LET es == LoadedEntries(ConfigFiles[ld.cfg].events) IN
                  /\ timers' = TimersOfEvents(es, <<>>)
                  /\ signals' = SignalsOfEvents(es)
           /\ ld.pc # "idle"
               => \A p \in DOMAIN servTree :
                     p \in DOMAIN servTree' /\ servTree'[p] = servTree[p] ]_vars

\* C11 witness: a reload by SIGHUP has run to its end that started with
\* timers, subscriptions and a cached service.
C11_Witness ==
    /\ reloadHist.call = "sighup"
    /\ reloadHist.outcome = "loaded"
    /\ reloadHist.preTimers # <<>>
    /\ reloadHist.preSignals # {}
    /\ servTree # <<>>

\* The fans of the file being loaded that name profiles, and whether the
\* zones built hold a fan.
ProfiledFans == {f \in SeqRange(ConfigFiles[ld.cfg].fans) : f.profiles # {}}

FanPlaced(f) == \E k \in DOMAIN ld.zones : f.name \in ld.zones[k].fans

\* C12, as claimed: when the fans have been moved into their zones, a fan
\* whose key names profiles is in a zone if and only if one of its profiles
\* is active.
C12_IncludedIffActive ==
    ld.pc = "loadEvents" =>
        \A f \in ProfiledFans :
            FanPlaced(f) <=> (\E p \in f.profiles : p \in activeProfiles)

\* C12, amended: such a fan is in a zone if and only if a zone built has the
\* name the fan gives and one of the fan's profiles that is active.
C12_PlacedIffCompatible ==
    ld.pc = "loadEvents" =>
        \A f \in ProfiledFans :
            FanPlaced(f) <=>
                \E k \in DOMAIN ld.zones :
                    /\ k[1] = f.zone
                    /\ \E p \in f.profiles : p \in k[2] /\ p \in activeProfiles

\* C12 witness: of the fans naming profiles one was placed, one with an
\* active profile was not, and one had no active profile.
C12_Witness ==
    /\ ld.pc = "loadEvents"
    /\ \E f, g, h \in ProfiledFans :
          /\ FanPlaced(f)
          /\ ~FanPlaced(g) /\ (\E p \in g.profiles : p \in activeProfiles)
          /\ ~FanPlaced(h) /\ ~(\E p \in h.profiles : p \in activeProfiles)

(***************************************************************************)
(* Manager: timers                                                         *)
(***************************************************************************)
TimerNames == {"e1", "e2"}
TimerTypes == {"oneshot", "repeating"}

TeIdle == [pc |-> "idle", idx |-> 0, type |-> "none", name |-> "none", ran |-> 0]

NoTimerOp == [op |-> "none", idx |-> 0, type |-> "none", before |-> <<>>]

TimerInit ==
    /\ timers = <<>>
    /\ te = TeIdle
    /\ timerHist = NoTimerOp

\* Manager::addTimer: the entry is appended and its timer armed.
AddTimer(type, name, nActions) ==
    /\ te.pc = "idle"
    /\ Len(timers) < MaxTimers
    /\ timers' = AddTimerEntry(timers, type, name, nActions)
    /\ timerHist' = [op |-> "add", idx |-> Len(timers) + 1, type |-> type,
                     before |-> timers]
    /\ UNCHANGED te
    /\ UNCHANGED notTimer

\* The event loop calls timerExpired with the data of entry i (te.idx is the
\* place of that entry in the list).  A oneshot timer (restartOnce) does not
\* fire again, a repeating one stays armed.
TimerFires(i) ==
    /\ te.pc = "idle"
    /\ i \in 1..Len(timers)
    /\ timers[i].armed
    /\ timers' = [timers EXCEPT ![i].armed = (timers[i].type = "repeating")]
    /\ te' = [pc |-> "actions", idx |-> i, type |-> timers[i].type,
              name |-> timers[i].name, ran |-> 0]
    /\ timerHist' = [op |-> "fire", idx |-> i, type |-> timers[i].type, before |-> timers]
    /\ UNCHANGED notTimer

\* timerExpired: the std::for_each over the actions, one action a step.
TimerRunAction ==
    /\ te.pc = "actions"
    /\ te.ran < timers[te.idx].actions
    /\ te' = [te EXCEPT !.ran = te.ran + 1]
    /\ timerHist' = [op |-> "action", idx |-> te.idx, type |-> te.type, before |-> timers]
    /\ UNCHANGED timers
    /\ UNCHANGED notTimer

\* std::find_if of timerExpired: the first entry of _timers with the type and
\* the name of the data (0: none).
FindTimer(ts, type, name) ==
    LET hits == {i \in 1..Len(ts) : ts[i].type = type /\ ts[i].name = name}
    IN IF hits = {} THEN 0 ELSE CHOOSE i \in hits : \A j \in hits : i <= j

RemoveAt(ts, i) == [j \in 1..(Len(ts) - 1) |-> IF j < i THEN ts[j] ELSE ts[j + 1]]

\* timerExpired after the actions: a oneshot timer is looked up and erased.
TimersAfterExpiry(ts, type, name) ==
    IF type = "oneshot" /\ FindTimer(ts, type, name) # 0
       THEN RemoveAt(ts, FindTimer(ts, type, name))
       ELSE ts

TimerRemove ==
    /\ te.pc = "actions"
    /\ te.ran = timers[te.idx].actions
    /\ timers' = TimersAfterExpiry(timers, te.type, te.name)
    /\ te' = TeIdle
    /\ timerHist' = [op |-> "expired", idx |-> te.idx, type |-> te.type, before |-> timers]
    /\ UNCHANGED notTimer

NextTimer ==
    \/ \E ty \in TimerTypes, n \in TimerNames, a \in 0..MaxActions : AddTimer(ty, n, a)
    \/ \E i \in 1..MaxTimers : TimerFires(i)
    \/ TimerRunAction
    \/ TimerRemove

(***************************************************************************)
(* Claims on the timers                                                    *)
(***************************************************************************)

\* C9: when a oneshot timer has expired, the entry removed from the timer list
\* is the entry whose timer expired, and every other entry is still in the
\* list with its timer as it was.
C9_OneshotRemovesExpired ==
    (timerHist.op = "expired" /\ timerHist.type = "oneshot")
        => timers = RemoveAt(timerHist.before, timerHist.idx)

\* C10: the list is as it was when the expiry callback of a repeating entry
\* returns; an entry leaves the list only as the oneshot entry whose own
\* expiry callback is running, once all of its actions have run.
C10_TimerLifetime ==
    [][ /\ (te.pc # "idle" /\ te'.pc = "idle" /\ te.type = "repeating")
            => timers' = timers
        /\ (Len(timers') < Len(timers))
            => /\ te.pc = "actions"
               /\ te.type = "oneshot"
               /\ te.ran = timers[te.idx].actions
               /\ timers' = RemoveAt(timers, te.idx) ]_vars

(***************************************************************************)
(* Manager: signal dispatch                                                *)
(***************************************************************************)
\* A handler package: what its handler returns for the message, and its
\* actions (FALSE: an empty action pointer, which is skipped).  The lists
\* dispatched hold no empty pointer, or one in the first place.
ActionLists ==
    {[i \in 1..n |-> TRUE] : n \in 0..MaxActions}
        \cup {[i \in 1..n |-> i # 1] : n \in 1..MaxActions}

SignalPkgs == [ret : BOOLEAN, actions : ActionLists]

PkgLists == UNION {[1..n -> SignalPkgs] : n \in 1..MaxPkgs}

\* msgAtStart: the read position of the message is at its start.
SigIdle == [pc |-> "idle", pkgs |-> <<>>, idx |-> 0, act |-> 0, msgAtStart |-> TRUE,
            trace |-> <<>>]

SigInit == sig = SigIdle

\* handleSignal: the range-for visits the packages in the order of the vector;
\* the k-th package visited is the k-th declared.
PkgIndexReversed(k, n) == n + 1 - k

PkgIndex(k, n) == k

CurPkg == PkgIndex(sig.idx, Len(sig.pkgs))

\* handleSignal: the message is rewound unless the package is the last one of
\* the vector.
RewindNever(pkg, n) == FALSE

RewindNeeded(pkg, n) == pkg # n

\* Manager::handleSignal is called with a message and the packages of its match.
HandleSignal(pkgs) ==
    /\ sig.pc = "idle"
    /\ sig' = [pc |-> "handler", pkgs |-> pkgs, idx |-> 1, act |-> 0, msgAtStart |-> TRUE,
               trace |-> <<>>]
    /\ UNCHANGED notSig

\* handleSignal: the handler of package idx reads the message and returns.
SigHandler ==
    /\ sig.pc = "handler"
    /\ sig' = [sig EXCEPT !.pc = IF sig.pkgs[CurPkg].ret THEN "actions" ELSE "rewind",
                          !.act = 1,
                          !.msgAtStart = FALSE,
                          !.trace = Append(@, [ev |-> "handler", pkg |-> CurPkg,
                                               act |-> 0, atStart |-> sig.msgAtStart])]
    /\ UNCHANGED notSig

\* handleSignal: the std::for_each over the actions of package idx, one
\* action a step; an empty pointer is passed over.
SigAction ==
    /\ sig.pc = "actions"
    /\ sig.act <= Len(sig.pkgs[CurPkg].actions)
    /\ sig' = [sig EXCEPT !.act = sig.act + 1,
                          !.trace = IF sig.pkgs[CurPkg].actions[sig.act]
                                       THEN Append(@, [ev |-> "action", pkg |-> CurPkg,
                                                       act |-> sig.act,
                                                       atStart |-> sig.msgAtStart])
                                       ELSE @]
    /\ UNCHANGED notSig

SigActionsDone ==
    /\ sig.pc = "actions"
    /\ sig.act > Len(sig.pkgs[CurPkg].actions)
    /\ sig' = [sig EXCEPT !.pc = "rewind"]
    /\ UNCHANGED notSig

\* handleSignal: the end of the loop body.
SigRewind ==
    /\ sig.pc = "rewind"
    /\ sig' = [sig EXCEPT !.pc = IF sig.idx = Len(sig.pkgs) THEN "done" ELSE "handler",
                          !.idx = sig.idx + 1,
                          !.msgAtStart = IF RewindNeeded(CurPkg, Len(sig.pkgs))
                                            THEN TRUE ELSE @]
    /\ UNCHANGED notSig

\* handleSignal returns.
SigReturn ==
    /\ sig.pc = "done"
    /\ sig' = SigIdle
    /\ UNCHANGED notSig

NextSignal ==
    \/ \E pkgs \in PkgLists : HandleSignal(pkgs)
    \/ SigHandler
    \/ SigAction
    \/ SigActionsDone
    \/ SigRewind
    \/ SigReturn

(***************************************************************************)
(* Claims on the signal dispatch                                           *)
(***************************************************************************)
TraceHas(ev, pkg, act) ==
    \E k \in 1..Len(sig.trace) :
        sig.trace[k].ev = ev /\ sig.trace[k].pkg = pkg /\ sig.trace[k].act = act

\* C7: when the dispatch of a message is over, the actions of package i have
\* run if and only if handler i returned true, and every handler found the
\* message rewound to its start.
C7_ActionsIffHandler ==
    /\ sig.pc = "done" =>
          \A i \in 1..Len(sig.pkgs) :
              /\ TraceHas("handler", i, 0)
              /\ \A a \in 1..Len(sig.pkgs[i].actions) :
                    TraceHas("action", i, a) <=> (sig.pkgs[i].ret /\ sig.pkgs[i].actions[a])
    /\ \A k \in 1..Len(sig.trace) :
          sig.trace[k].ev = "handler" => sig.trace[k].atStart

\* C7 witness: a dispatch is over in which a handler returned false and a
\* later one true, both with actions, and the actions of the later one ran.
C7_Witness ==
    /\ sig.pc = "done"
    /\ \E i, j \in 1..Len(sig.pkgs) :
          /\ i < j
          /\ ~sig.pkgs[i].ret /\ sig.pkgs[i].actions # <<>> /\ sig.pkgs[i].actions[1]
          /\ sig.pkgs[j].ret /\ sig.pkgs[j].actions # <<>> /\ sig.pkgs[j].actions[1]
          /\ TraceHas("action", j, 1)

\* C8, as claimed: handlers are invoked in the order declared, and no action
\* runs until every handler of the event has observed the message.
C8_ActionsAfterAllHandlers ==
    \A k \in 1..Len(sig.trace) :
        /\ sig.trace[k].ev = "handler" =>
              \A m \in 1..(k - 1) : sig.trace[m].ev = "handler" => sig.trace[m].pkg < sig.trace[k].pkg
        /\ sig.trace[k].ev = "action" =>
              \A i \in 1..Len(sig.pkgs) :
                  \E m \in 1..(k - 1) : sig.trace[m].ev = "handler" /\ sig.trace[m].pkg = i

\* C8, amended: handlers are invoked in the order declared, and an action of a
\* package runs after that package's handler has observed the message and
\* before any later handler is invoked.
C8_ActionsFollowOwnHandler ==
    \A k \in 1..Len(sig.trace) :
        /\ sig.trace[k].ev = "handler" =>
              \A m \in 1..(k - 1) : sig.trace[m].pkg < sig.trace[k].pkg
        /\ sig.trace[k].ev = "action" =>
              /\ \E m \in 1..(k - 1) :
                    sig.trace[m].ev = "handler" /\ sig.trace[m].pkg = sig.trace[k].pkg
              /\ \A m \in 1..(k - 1) : sig.trace[m].pkg <= sig.trace[k].pkg

\* C8 witness: the actions of the first package have run and the handler of
\* the second package was invoked after them.
C8_Witness ==
    \E k \in 1..Len(sig.trace) : \E m \in 1..(k - 1) :
        /\ sig.trace[m].ev = "action" /\ sig.trace[m].pkg = 1
        /\ sig.trace[k].ev = "handler" /\ sig.trace[k].pkg = 2

(***************************************************************************)
(* monitor::Fan                                                            *)
(***************************************************************************)
Sensors == 1..NumSensors

\* The definition of the monitored fan and the tach readings it is given:
\* one in the band around the target, one below it.
FanDef == [deviation |-> 15, target |-> 100]
Inputs == {80, 100}

\* outOfRange with the bounds themselves out of range.
OutOfRangeInclusive(actual, tgt, deviation) ==
    LET min == (tgt * (100 - deviation)) \div 100
        max == (tgt * (100 + deviation)) \div 100
    IN (actual <= min) \/ (actual >= max)

\* Fan::outOfRange.
OutOfRange(actual, tgt, deviation) ==
    LET min == (tgt * (100 - deviation)) \div 100
        max == (tgt * (100 + deviation)) \div 100
    IN (actual < min) \/ (actual > max)

SensorOutOfRange(actual) == OutOfRange(actual, FanDef.target, FanDef.deviation)

RangeOf(actual) == IF SensorOutOfRange(actual) THEN "out" ELSE "in"

NoFanOp == [op |-> "none", sensor |-> 0, notify |-> "none", wasFunctional |-> TRUE,
            started |-> FALSE, untrusted |-> FALSE, everFailed |-> FALSE]

\* Fan::Fan in monitor mode: the inventory is told the fan is functional, the
\* sensors are created functional and tachChanged() is run on each of them,
\* which starts the timer of one that is out of range unless the update is
\* dropped as untrusted.
FanCtor(n, inputs, seen) ==
    /\ numSensorFailsForNonFunc = n
    /\ fanFunctional = TRUE
    /\ inventory = TRUE
    /\ sensorInput = inputs
    /\ sensorFunctional = [s \in Sensors |-> TRUE]
    /\ lastSeen = seen
    /\ timerRunning = [s \in Sensors |-> seen[s] = "out"]
    /\ fanLast = NoFanOp

FanInit ==
    \E n \in 1..NumSensors : \E inputs \in [Sensors -> Inputs] :
        \E seen \in [Sensors -> {"none", "in", "out"}] :
            /\ \A s \in Sensors : seen[s] \in {"none", RangeOf(inputs[s])}
            /\ FanCtor(n, inputs, seen)

FanIdle ==
    FanCtor(1, [s \in Sensors |-> 100], [s \in Sensors |-> "in"])

NumFailed(sf) == Cardinality({s \in Sensors : ~sf[s]})

\* tooManySensorsNonfunctional with a strict comparison.
TooManyStrictly(sf) == NumFailed(sf) > numSensorFailsForNonFunc

\* Fan::tooManySensorsNonfunctional.
TooManySensorsNonfunctional(sf) == NumFailed(sf) >= numSensorFailsForNonFunc

\* Fan::updateInventory: _functional follows the inventory, which a failed
\* Notify call leaves as it was.
UpdateInventory(functional, notifyOk) ==
    /\ fanFunctional' = IF notifyOk THEN functional ELSE fanFunctional
    /\ inventory' = IF notifyOk THEN functional ELSE inventory

NotifyResult(called, notifyOk) ==
    IF ~called THEN "none" ELSE IF notifyOk THEN "ok" ELSE "failed"

\* tachChanged: no update is dropped.
TachNeverDropped(active, trust) == FALSE

\* tachChanged returns at once when the trust manager is active and
\* checkTrust(sensor) is false.
TachDropped(active, trust) == active /\ ~trust

\* tachChanged: startTimer() is called whatever the sensor's state.
StartsTimerAlways(functional, running) == TRUE

\* tachChanged, out of range: startTimer() is called for a functional sensor
\* whose timer is not running.
StartsTimer(functional, running) == functional /\ ~running

\* Fan::tachChanged(sensor), called when the sensor has a new input.  active
\* and trust are what the trust manager answers.
TachChanged(s, actual, active, trust, notifyOk) ==
    /\ sensorInput' = [sensorInput EXCEPT ![s] = actual]
    /\ IF TachDropped(active, trust)
          THEN /\ UNCHANGED <<sensorFunctional, timerRunning, fanFunctional, inventory,
                              lastSeen>>
               /\ fanLast' = [op |-> "tachDropped", sensor |-> s, notify |-> "none",
                              wasFunctional |-> fanFunctional, started |-> FALSE,
                              untrusted |-> active /\ ~trust,
                              everFailed |-> fanLast.everFailed]
          ELSE IF SensorOutOfRange(actual)
                  THEN /\ timerRunning' =
                             [timerRunning EXCEPT
                                 ![s] = IF StartsTimer(sensorFunctional[s], @)
                                           THEN TRUE ELSE @]
                       /\ lastSeen' = [lastSeen EXCEPT ![s] = "out"]
                       /\ UNCHANGED <<sensorFunctional, fanFunctional, inventory>>
                       /\ fanLast' = [op |-> "tachOut", sensor |-> s, notify |-> "none",
                                      wasFunctional |-> fanFunctional,
                                      started |-> StartsTimer(sensorFunctional[s],
                                                              timerRunning[s]),
                                      untrusted |-> active /\ ~trust,
                                      everFailed |-> fanLast.everFailed]
                  ELSE LET sf == [sensorFunctional EXCEPT ![s] = TRUE]
                           called == ~fanFunctional /\ ~TooManySensorsNonfunctional(sf)
                       IN /\ sensorFunctional' = sf
                          /\ timerRunning' = [timerRunning EXCEPT ![s] = FALSE]
                          /\ lastSeen' = [lastSeen EXCEPT ![s] = "in"]
                          /\ IF called THEN UpdateInventory(TRUE, notifyOk)
                                       ELSE UNCHANGED <<fanFunctional, inventory>>
                          /\ fanLast' = [op |-> "tachIn", sensor |-> s,
                                         notify |-> NotifyResult(called, notifyOk),
                                         wasFunctional |-> fanFunctional, started |-> FALSE,
                                         untrusted |-> active /\ ~trust,
                                         everFailed |-> fanLast.everFailed
                                                           \/ (called /\ ~notifyOk)]
    /\ UNCHANGED numSensorFailsForNonFunc
    /\ UNCHANGED notFan

\* Fan::timerExpired(sensor): the sensor's timer has run for its timeout.
TimerExpired(s, notifyOk) ==
    /\ timerRunning[s]
    /\ LET sf == [sensorFunctional EXCEPT ![s] = FALSE]
           called == fanFunctional /\ TooManySensorsNonfunctional(sf)
       IN /\ sensorFunctional' = sf
          /\ timerRunning' = [timerRunning EXCEPT ![s] = FALSE]
          /\ IF called THEN UpdateInventory(FALSE, notifyOk)
                       ELSE UNCHANGED <<fanFunctional, inventory>>
          /\ fanLast' = [op |-> "timerExpired", sensor |-> s,
                         notify |-> NotifyResult(called, notifyOk),
                         wasFunctional |-> fanFunctional, started |-> FALSE,
                         untrusted |-> FALSE,
                         everFailed |-> fanLast.everFailed \/ (called /\ ~notifyOk)]
    /\ UNCHANGED <<numSensorFailsForNonFunc, sensorInput, lastSeen>>
    /\ UNCHANGED notFan

NextFan ==
    \/ \E s \in Sensors, a \in Inputs, active \in BOOLEAN, trust \in BOOLEAN,
          ok \in BOOLEAN : TachChanged(s, a, active, trust, ok)
    \/ \E s \in Sensors, ok \in BOOLEAN : TimerExpired(s, ok)

(***************************************************************************)
(* Claims on the fan monitor                                               *)
(***************************************************************************)

\* The fan goes from functional to non-functional only in a timer expiry that
\* leaves num_sensor_fails_for_nonfunc or more sensors non-functional, and the
\* inventory then holds Functional=false.
FanMarkedOnlyOnExpiry ==
    (fanFunctional /\ ~fanFunctional')
        => /\ fanLast'.op = "timerExpired"
           /\ NumFailed(sensorFunctional') >= numSensorFailsForNonFunc
           /\ inventory' = FALSE

\* A sensor is marked non-functional only by the expiry of its own timer.
SensorMarkedOnlyByTimer ==
    \A s \in Sensors :
        (sensorFunctional[s] /\ ~sensorFunctional'[s])
            => fanLast'.op = "timerExpired" /\ fanLast'.sensor = s /\ timerRunning[s]

\* C5: a functional fan is marked non-functional, and the inventory holds
\* Functional=false, exactly when a timer expiry brings the number of
\* non-functional sensors to num_sensor_fails_for_nonfunc; a sensor is marked
\* non-functional only by its own timer, and a timer runs only while the last
\* reading the fan took for its sensor was out of range.
C5_DebounceExactly ==
    /\ [][ /\ FanMarkedOnlyOnExpiry
           /\ SensorMarkedOnlyByTimer
           /\ (fanLast'.op = "timerExpired" /\ fanFunctional
               /\ NumFailed(sensorFunctional') >= numSensorFailsForNonFunc)
                  => (~fanFunctional' /\ inventory' = FALSE) ]_vars
    /\ [](\A s \in Sensors : timerRunning[s] => lastSeen[s] = "out" /\ sensorFunctional[s])

\* C28: on an in-range tach update the fan takes for a sensor, the sensor is
\* functional and its timer stopped when the update returns; a fan that was
\* non-functional is then functional, with the inventory at Functional=true,
\* exactly when fewer than num_sensor_fails_for_nonfunc sensors are
\* non-functional, and stays non-functional otherwise.
C28_InRangeRestores ==
    [][ fanLast'.op = "tachIn"
            => /\ sensorFunctional'[fanLast'.sensor]
               /\ ~timerRunning'[fanLast'.sensor]
               /\ ~fanFunctional
                     => ((fanFunctional' /\ inventory' = TRUE)
                            <=> NumFailed(sensorFunctional') < numSensorFailsForNonFunc) ]_vars

\* C29: the timer of a sensor is started only by an out-of-range update the
\* fan takes while the sensor is functional and its timer is not running; an
\* out-of-range update while the timer runs does not start it again and
\* leaves it running; so a sensor whose timer is running is functional.
C29_TimerStartedOnce ==
    /\ [](\A s \in Sensors : timerRunning[s] => sensorFunctional[s])
    /\ [][ /\ fanLast'.started
                => /\ fanLast'.op = "tachOut"
                   /\ sensorFunctional[fanLast'.sensor]
                   /\ ~timerRunning[fanLast'.sensor]
           /\ \A s \in Sensors :
                 (~timerRunning[s] /\ timerRunning'[s])
                     => (fanLast'.started /\ fanLast'.sensor = s)
           /\ (fanLast'.op = "tachOut" /\ timerRunning[fanLast'.sensor])
                => (~fanLast'.started /\ timerRunning'[fanLast'.sensor]) ]_vars

\* C29 witness: an out-of-range update was taken for a sensor whose timer was
\* running: the timer was not started again and is still running.
C29_Witness ==
    /\ fanLast.op = "tachOut"
    /\ ~fanLast.started
    /\ timerRunning[fanLast.sensor]
    /\ sensorFunctional[fanLast.sensor]

\* C30: a tach update for a sensor that is untrusted while the trust manager
\* is active is dropped: the functional flag and the timer of every sensor and
\* the functional flag of the fan are as they were, and nothing is published
\* to the inventory.
C30_UntrustedDropped ==
    [][ fanLast'.untrusted
            => /\ sensorFunctional' = sensorFunctional
               /\ timerRunning' = timerRunning
               /\ fanFunctional' = fanFunctional
               /\ inventory' = inventory
               /\ fanLast'.notify = "none" ]_vars

\* C30 witness: updates were dropped that would have changed the state: an
\* in-range reading of a non-functional sensor of a non-functional fan.
C30_Witness ==
    /\ fanLast.untrusted
    /\ ~SensorOutOfRange(sensorInput[fanLast.sensor])
    /\ ~sensorFunctional[fanLast.sensor]
    /\ ~fanFunctional

\* C32: with num_sensor_fails_for_nonfunc >= 1 and as long as every
\* inventory notification has succeeded, after every tach update and every
\* timer expiry the fan is functional if and only if fewer than
\* num_sensor_fails_for_nonfunc of its sensors are non-functional.
C32_FunctionalIffFewFailed ==
    (numSensorFailsForNonFunc >= 1 /\ ~fanLast.everFailed)
        => (fanFunctional <=> NumFailed(sensorFunctional) < numSensorFailsForNonFunc)

\* C32 witness: no notification has failed, an in-range reading has brought a
\* sensor back, and the fan is still non-functional because another sensor
\* is.
C32_Witness ==
    /\ ~fanLast.everFailed
    /\ fanLast.op = "tachIn"
    /\ ~fanFunctional
    /\ sensorFunctional[fanLast.sensor]
    /\ NumFailed(sensorFunctional) >= numSensorFailsForNonFunc

(***************************************************************************)
(* monitor::Fan: the range test as a function of its inputs                *)
(***************************************************************************)
\* The largest target, input and deviation (a percentage) of the calls made.
Percent == 100

OorIdle == oor = [input |-> 0, target |-> 0, deviation |-> 0, ret |-> "none"]

\* A sensor with some input and target, of a fan with some deviation.
OorInit ==
    \E i \in 0..Percent, t \in 0..Percent, d \in 0..Percent :
        oor = [input |-> i, target |-> t, deviation |-> d, ret |-> "none"]

\* Fan::outOfRange(sensor) is called and returns.
OutOfRangeCall ==
    /\ oor.ret = "none"
    /\ oor' = [oor EXCEPT !.ret = IF OutOfRange(oor.input, oor.target, oor.deviation)
                                     THEN "out" ELSE "in"]
    /\ UNCHANGED notOor

NextRange == OutOfRangeCall

\* C31: for target, input and deviation in 0..100 the sensor is out of range
\* if and only if input < target*(100-deviation)/100 or
\* input > target*(100+deviation)/100, the divisions truncating (so input is
\* below the lower bound iff 100*(input+1) <= target*(100-deviation), and
\* above the upper one iff 100*input > target*(100+deviation)); an input equal
\* to either bound is in range, and with target 0 every non-zero input is out
\* of range.
C31_OutOfRange ==
    oor.ret # "none" =>
        LET lo == (oor.target * (100 - oor.deviation)) \div 100
            hi == (oor.target * (100 + oor.deviation)) \div 100
        IN /\ (oor.ret = "out") <=> (oor.input < lo \/ oor.input > hi)
           /\ (oor.ret = "out") <=>
                 \/ 100 * (oor.input + 1) <= oor.target * (100 - oor.deviation)
                 \/ 100 * oor.input > oor.target * (100 + oor.deviation)
           /\ (oor.input = lo \/ oor.input = hi) => oor.ret = "in"
           /\ (oor.target = 0 /\ oor.input # 0) => oor.ret = "out"

\* C31 witness: the input is the lower bound, which the division truncated,
\* and the call returned in range.
C31_Witness ==
    /\ oor.ret = "in"
    /\ oor.input = (oor.target * (100 - oor.deviation)) \div 100
    /\ (oor.target * (100 - oor.deviation)) % 100 # 0
    /\ oor.input < oor.target
(***************************************************************************)
(* Manager: inConfig called on any two keys                                *)
(***************************************************************************)
ProfileNames == {"p1", "p2"}
ConfigKeys == {"z1", "z2"} \X (SUBSET ProfileNames)

NoCall == [op |-> "none", input |-> <<"", {}>>, comp |-> <<"", {}>>, active |-> {},
           ret |-> FALSE]

CallInit == icLast = NoCall

\* Manager::setProfiles leaves the names of the active profiles of the file
\* in _activeProfiles.
ActiveProfilesSet(act) ==
    /\ activeProfiles' = act
    /\ profiles' = ProfileNames
    /\ UNCHANGED <<zones, events, allGroups, signals, loadAllowed, ld, reloadHist>>
    /\ UNCHANGED <<zoneVars, timerVars, servVars, sigVars, fanVars, callVars, objVars, pwrVars, thermVars, grpVars, oorVars>>

\* Manager::inConfig called with two keys.
InConfigCall(input, comp) ==
    /\ icLast' = [op |-> "inConfig", input |-> input, comp |-> comp,
                  active |-> activeProfiles, ret |-> inConfig(input, comp)]
    /\ UNCHANGED notCall

NextCall ==
    \/ \E act \in SUBSET ProfileNames : ActiveProfilesSet(act)
    \/ \E input \in ConfigKeys, comp \in ConfigKeys : InConfigCall(input, comp)

(***************************************************************************)
(* Claims on inConfig                                                      *)
(***************************************************************************)

\* C13: in_config(input, comp) returns true if and only if the names are
\* equal and either input names no profile or some profile is in both
\* profile sets and in the active-profile list.
C13_InConfigIff ==
    icLast.op = "inConfig" =>
        (icLast.ret <=>
            /\ icLast.input[1] = icLast.comp[1]
            /\ \/ icLast.input[2] = {}
               \/ \E p \in ProfileNames :
                     p \in icLast.input[2] /\ p \in icLast.comp[2] /\ p \in icLast.active)

\* C13 witness: inConfig has returned true for keys that share an active
\* profile and also hold a profile that is not active.
C13_Witness ==
    /\ icLast.op = "inConfig"
    /\ icLast.ret
    /\ icLast.input[2] = ProfileNames
    /\ icLast.comp[2] = ProfileNames
    /\ icLast.active = {"p2"}

(***************************************************************************)
(* Manager: objects cache                                                  *)
(***************************************************************************)
Props == {"x", "y"}
PropValues == {"v1", "v2"}
ParamNames == {"n1"}

NoObjOp == [op |-> "none", path |-> "", intf |-> "", prop |-> "", ret |-> "none"]

ObjInit ==
    /\ objects = <<>>
    /\ parameters = <<>>
    /\ objLast = NoObjOp

\* std::map::find down the three levels of _objects.
HasProperty(objs, path, intf, prop) ==
    /\ path \in DOMAIN objs
    /\ intf \in DOMAIN objs[path]
    /\ prop \in DOMAIN objs[path][intf]

\* _objects[path][intf][prop] = value: the entries missing on the way are created.
PutProperty(objs, path, intf, prop, value) ==
    LET oldPath == IF path \in DOMAIN objs THEN objs[path] ELSE <<>>
        oldIntf == IF intf \in DOMAIN oldPath THEN oldPath[intf] ELSE <<>>
        newIntf == [q \in DOMAIN oldIntf \cup {prop} |->
                       IF q = prop THEN value ELSE oldIntf[q]]
        newPath == [i \in DOMAIN oldPath \cup {intf} |->
                       IF i = intf THEN newIntf ELSE oldPath[i]]
    IN [p \in DOMAIN objs \cup {path} |-> IF p = path THEN newPath ELSE objs[p]]

ObjMgrIntf == "org.freedesktop.DBus.ObjectManager"

\* The objects on the bus: service s1 exposes an object manager on /a and
\* hosts i1 on both paths, service s2 hosts i2 on /b and has no object manager.
BusObjects ==
    [p \in Paths |->
        IF p = "/a" THEN [s \in {"s1"} |-> <<"i1", ObjMgrIntf>>]
                    ELSE [s \in Servs |-> IF s = "s1" THEN <<"i1">> ELSE <<"i2">>]]

\* getSubTreeRaw("/", intf, 0): the (path, service) pairs implementing intf.
SubTreePairs(intf) ==
    {<<p, s>> \in Paths \X Servs : s \in DOMAIN BusObjects[p] /\ HasIntf(BusObjects[p][s], intf)}

\* Manager::findService: the first service cached on the path, in the order
\* of the map, that lists the interface ("": none).
ServOrder == <<"s1", "s2">>

FindService(tree, path, intf) ==
    LET hits == {k \in 1..Len(ServOrder) :
                    /\ path \in DOMAIN tree
                    /\ ServOrder[k] \in DOMAIN tree[path]
                    /\ HasIntf(tree[path][ServOrder[k]].intfs, intf)}
    IN IF hits = {} THEN "" ELSE ServOrder[CHOOSE k \in hits : \A j \in hits : k <= j]

\* Manager::findPaths.
FindPaths(tree, serv, intf) ==
    {p \in DOMAIN tree : serv \in DOMAIN tree[p] /\ HasIntf(tree[p][serv].intfs, intf)}

\* The services cache after getService(path, intf): addServices(intf, 0) on a miss.
TreeAfterGetService(tree, path, intf) ==
    IF FindService(tree, path, intf) = ""
       THEN AddServicePairs(tree, SubTreePairs(intf), BusObjects, intf)
       ELSE tree

\* The services cache after getPaths(serv, intf): addServices(intf, 0) on a miss.
TreeAfterGetPaths(tree, serv, intf) ==
    IF FindPaths(tree, serv, intf) = {}
       THEN AddServicePairs(tree, SubTreePairs(intf), BusObjects, intf)
       ELSE tree

\* The replies of getManagedObjects for service s1 the checks use.
ManagedReplies ==
    {[p \in {"/a"} |-> [i \in {"i1"} |-> [q \in {"x"} |-> "v1"]]],
     [p \in {"/a"} |-> [i \in {"i1"} |-> [q \in Props |-> "v2"]]],
     [p \in Paths |-> [i \in {"i1"} |-> [q \in {IF p = "/a" THEN "x" ELSE "y"} |-> "v1"]]]}

\* addObjects, the loop over the fetched objects: a path not cached is
\* inserted; for a cached path the loops run over the cached interfaces and
\* their cached properties, each found by find and assigned to itself.
MergeManaged(objs, fetched) ==
    [p \in DOMAIN objs \cup DOMAIN fetched |->
        IF p \in DOMAIN objs
           THEN [i \in DOMAIN objs[p] |-> [q \in DOMAIN objs[p][i] |-> objs[p][i][q]]]
           ELSE fetched[p]]

\* Manager::addObjects; fetched and value are what the bus answers.
AddObjects(path, intf, prop, fetched, value) ==
    LET tree1 == TreeAfterGetService(servTree, path, intf)
        service == FindService(tree1, path, intf)
        tree2 == IF service = "" THEN tree1 ELSE TreeAfterGetPaths(tree1, service, ObjMgrIntf)
        objMgrPaths == IF service = "" THEN {} ELSE FindPaths(tree2, service, ObjMgrIntf)
        branch == IF service = "" THEN "none"
                  ELSE IF objMgrPaths = {} THEN "direct" ELSE "managed"
    IN
    /\ servTree' = tree2
    /\ objects' = CASE branch = "none" -> objects
                    [] branch = "direct" -> PutProperty(objects, path, intf, prop, value)
                    [] OTHER -> MergeManaged(objects, fetched)
    /\ objLast' = [op |-> "addObjects", path |-> path, intf |-> intf, prop |-> prop,
                   ret |-> IF branch = "direct" THEN value ELSE "none", branch |-> branch,
                   fetched |-> IF branch = "managed" THEN fetched ELSE <<>>]
    /\ UNCHANGED <<parameters, servLast>>
    /\ UNCHANGED <<zoneVars, loadVars, timerVars, sigVars, fanVars, callVars, pwrVars, thermVars, grpVars, oorVars>>

\* addObjects for a service without an object manager: the property is read
\* from the bus and stored.
AddObjectsDirect(path, intf, prop, value) ==
    /\ objects' = PutProperty(objects, path, intf, prop, value)
    /\ objLast' = [op |-> "addObjects", path |-> path, intf |-> intf, prop |-> prop,
                   ret |-> "none"]
    /\ UNCHANGED parameters
    /\ UNCHANGED notObj

\* addGroup, a member whose property cannot be read: the property is erased
\* from the cache if its path and interface are cached.
EraseProperty(objs, path, intf, prop) ==
    IF path \in DOMAIN objs /\ intf \in DOMAIN objs[path]
       THEN [objs EXCEPT ![path][intf] = [q \in DOMAIN @ \ {prop} |-> @[q]]]
       ELSE objs

AddGroupFailed(path, intf, prop) ==
    /\ objects' = EraseProperty(objects, path, intf, prop)
    /\ objLast' = [op |-> "addGroup", path |-> path, intf |-> intf, prop |-> prop,
                   ret |-> "none"]
    /\ UNCHANGED parameters
    /\ UNCHANGED notObj

\* setParameter(name, value).
SetParameter(name, value) ==
    /\ parameters' = [n \in DOMAIN parameters \cup {name} |->
                         IF n = name THEN value ELSE parameters[n]]
    /\ objLast' = [op |-> "setParameter", path |-> "", intf |-> "", prop |-> name,
                   ret |-> "none"]
    /\ UNCHANGED objects
    /\ UNCHANGED notObj

\* getProperty reaching the property through operator[].
GetPropertyIndexing(objs, path, intf, prop) ==
    [value |-> IF HasProperty(objs, path, intf, prop) THEN objs[path][intf][prop]
                                                       ELSE "none",
     objects |-> IF HasProperty(objs, path, intf, prop) THEN objs
                 ELSE LET oldPath == IF path \in DOMAIN objs THEN objs[path] ELSE <<>>
                          newPath == [i \in DOMAIN oldPath \cup {intf} |->
                                         IF i \in DOMAIN oldPath THEN oldPath[i] ELSE <<>>]
                      IN [p \in DOMAIN objs \cup {path} |->
                             IF p = path THEN newPath ELSE objs[p]]]

\* Manager::getProperty: what it returns ("none": std::nullopt) and the
\* cache it leaves; every level is looked up with find.
GetPropertyResult(objs, path, intf, prop) ==
    [value |-> IF path \in DOMAIN objs
                  THEN IF intf \in DOMAIN objs[path]
                          THEN IF prop \in DOMAIN objs[path][intf]
                                  THEN objs[path][intf][prop]
                                  ELSE "none"
                          ELSE "none"
                  ELSE "none",
     objects |-> objs]

GetProperty(path, intf, prop) ==
    LET res == GetPropertyResult(objects, path, intf, prop) IN
    /\ objects' = res.objects
    /\ objLast' = [op |-> "getProperty", path |-> path, intf |-> intf, prop |-> prop,
                   ret |-> res.value]
    /\ UNCHANGED parameters
    /\ UNCHANGED notObj

\* A getService() miss puts a service into the services cache.
ObjCacheService ==
    /\ servTree = <<>>
    /\ servTree' = AddServicePairs(servTree, {<<"/a", "s1">>}, CachedReply, "i1")
    /\ servLast' = [op |-> "addServices", path |-> "", serv |-> "", intf |-> "i1",
                    owned |-> FALSE, flipped |-> {}]
    /\ UNCHANGED <<zoneVars, loadVars, timerVars, sigVars, fanVars, callVars, objVars, pwrVars, thermVars, grpVars, oorVars>>

NextObj ==
    \/ \E p \in Paths, i \in Intfs, q \in Props : AddObjectsDirect(p, i, q, "v1")
    \/ \E p \in Paths, i \in Intfs, q \in Props : AddGroupFailed(p, i, q)
    \/ \E n \in ParamNames : SetParameter(n, "v1")
    \/ \E p \in Paths, i \in Intfs, q \in Props : GetProperty(p, i, q)
    \/ ObjCacheService

NextAddObjects ==
    \E p \in Paths, i \in Intfs, q \in Props, f \in ManagedReplies, v \in PropValues :
        AddObjects(p, i, q, f, v)

\* getSubTreeRaw("/", intf, 0) on this bus.
BusSubTree(intf) ==
    [p \in {pr[1] : pr \in SubTreePairs(intf)} |->
        [s \in {pr[2] : pr \in {x \in SubTreePairs(intf) : x[1] = p}} |-> BusObjects[p][s]]]

\* addServices on this bus, between setOwner calls that take a service's
\* ownership away.
NextAddServices ==
    \/ \E i \in Intfs \cup {ObjMgrIntf} : AddServices(i, BusSubTree(i))
    \/ \E p \in Paths, s \in Servs, i \in Intfs : SetOwner(p, s, i, FALSE)

(***************************************************************************)
(* Claims on the objects cache                                             *)
(***************************************************************************)

\* C14: get_property on a key absent from the objects cache (path,
\* interface or property missing) returns None and leaves the objects,
\* services and parameters maps as they were.
C14_GetPropertyMiss ==
    [][ (objLast'.op = "getProperty" /\ objLast' # objLast
         /\ ~HasProperty(objects, objLast'.path, objLast'.intf, objLast'.prop))
            => /\ objLast'.ret = "none"
               /\ objects' = objects
               /\ servTree' = servTree
               /\ parameters' = parameters ]_vars

\* C14 witness: get_property has returned None for a property missing from
\* a cached interface of a cached path, with a service and a parameter cached.
C14_Witness ==
    /\ objLast.op = "getProperty"
    /\ objLast.ret = "none"
    /\ objLast.path \in DOMAIN objects
    /\ objLast.intf \in DOMAIN objects[objLast.path]
    /\ objects[objLast.path][objLast.intf] # <<>>
    /\ servTree # <<>>
    /\ parameters # <<>>

\* A step made by the objects cache operation named.
ObjCall(op) == objLast'.op = op /\ servLast' = servLast

\* C23: after add_objects for a service with an object manager every
\* (path, interface, property) of the managed-objects reply is cached with
\* the fetched value, cached before or not; for a service without one only
\* the triple asked for is stored.
C23_AddObjectsMerges ==
    [][ ObjCall("addObjects")
            => LET f == objLast'.fetched IN
               /\ objLast'.branch = "managed"
                    => \A p \in DOMAIN f : \A i \in DOMAIN f[p] : \A q \in DOMAIN f[p][i] :
                          /\ HasProperty(objects', p, i, q)
                          /\ objects'[p][i][q] = f[p][i][q]
               /\ objLast'.branch = "direct"
                    => objects' = PutProperty(objects, objLast'.path, objLast'.intf,
                                              objLast'.prop, objLast'.ret) ]_vars

NoDuplicates(intfs) == \A j, k \in 1..Len(intfs) : intfs[j] = intfs[k] => j = k

\* C24: add_services(intf, depth) removes no interface from and leaves the
\* owned flag of every (path, service) entry already cached; an existing
\* entry gets only the interfaces not yet listed, so no interface is listed
\* twice; every (path, service) pair of the bus's reply is cached afterwards.
C24_AddServicesFrame ==
    [][ servLast'.op = "addServices"
            => /\ \A p \in DOMAIN servTree : \A s \in DOMAIN servTree[p] :
                     /\ p \in DOMAIN servTree' /\ s \in DOMAIN servTree'[p]
                     /\ servTree'[p][s].owned = servTree[p][s].owned
                     /\ Len(servTree'[p][s].intfs) >= Len(servTree[p][s].intfs)
                     /\ SubSeq(servTree'[p][s].intfs, 1, Len(servTree[p][s].intfs))
                            = servTree[p][s].intfs
                     /\ NoDuplicates(servTree[p][s].intfs) => NoDuplicates(servTree'[p][s].intfs)
                     /\ \A k \in (Len(servTree[p][s].intfs) + 1)..Len(servTree'[p][s].intfs) :
                            /\ p \in DOMAIN BusSubTree(servLast'.intf) /\ s \in DOMAIN BusSubTree(servLast'.intf)[p]
                            /\ HasIntf(BusSubTree(servLast'.intf)[p][s], servTree'[p][s].intfs[k])
               /\ \A p \in DOMAIN BusSubTree(servLast'.intf) : \A s \in DOMAIN BusSubTree(servLast'.intf)[p] :
                     p \in DOMAIN servTree' /\ s \in DOMAIN servTree'[p] ]_vars

\* C24 witness: add_services has appended an interface to an entry that was
\* cached as not owned with another interface.
C24_Witness ==
    /\ servLast.op = "addServices"
    /\ \E p \in DOMAIN BusSubTree(servLast.intf) : \E s \in DOMAIN BusSubTree(servLast.intf)[p] :
          /\ p \in DOMAIN servTree /\ s \in DOMAIN servTree[p]
          /\ ~servTree[p][s].owned
          /\ Len(servTree[p][s].intfs) = 2
          /\ servTree[p][s].intfs[2] = servLast.intf
          /\ servTree[p][s].intfs[1] # servLast.intf

(***************************************************************************)
(* Manager: cache refresh of groups (addGroup) and the timer expiry that   *)
(* asks for it                                                             *)
(***************************************************************************)
\* A group: its members (object paths), its interface and its property.
GroupA == [members |-> <<"/a", "/b">>, intf |-> "i1", prop |-> "x"]
GroupB == [members |-> <<"/b">>, intf |-> "i2", prop |-> "y"]

\* The groups bound to a timer entry, or handed to addGroup.
GroupLists == {<<>>, <<GroupA>>, <<GroupA, GroupB>>}

\* What the bus does for one member: getService throws, getPropertyVariant
\* throws, or the property is read and has the value.
BusFailures == {"noService", "getFailed"}
BusOutcomes == BusFailures \cup PropValues

\* caller: "none", "timer" (timerExpired) or "direct" (any other caller of
\* addGroup); ret: how the last direct call ended; log: the members walked,
\* each with what the bus did and whether the cache held its property (had).
GrpIdle == [caller |-> "none", flag |-> FALSE, groups |-> <<>>, g |-> 1, k |-> 1,
            ret |-> "none", log |-> <<>>]

GrpInit == grp = GrpIdle

\* setProperty(path, intf, prop, value) stores the value in the objects cache.
SetProperty(objs, path, intf, prop, value) == PutProperty(objs, path, intf, prop, value)

\* addGroup, the catch block: the cache keeps what it holds.
AddGroupKeepsStale(objs, path, intf, prop) == objs

\* addGroup, the catch block: _objects.at(member).at(intf).erase(prop), the
\* out_of_range of a missing path or interface is swallowed.
AddGroupCatch(objs, path, intf, prop) == EraseProperty(objs, path, intf, prop)

\* addGroup, the body of the loop for one member.
AddGroupObjects(objs, path, intf, prop, out) ==
    IF out \in BusFailures
       THEN AddGroupCatch(objs, path, intf, prop)
       ELSE SetProperty(objs, path, intf, prop, out)

\* addGroup, getService of the loop body: it has returned unless it threw.
AddGroupTree(tree, path, intf, out) ==
    IF out = "noService" THEN tree ELSE TreeAfterGetService(tree, path, intf)

\* timerExpired: the groups are walked when the flag of the package is set.
RefreshAlways(updateCache) == TRUE

RefreshWanted(updateCache) == updateCache

GrpWalking == grp.g <= Len(grp.groups)

CurGroup == grp.groups[grp.g]

\* The event loop calls timerExpired with the data of entry i, whose package
\* holds the groups and the update flag.
TimerFiresPkg(i, updateCache, groups) ==
    /\ te.pc = "idle"
    /\ grp.caller # "direct"
    /\ i \in 1..Len(timers)
    /\ timers[i].armed
    /\ timers' = [timers EXCEPT ![i].armed = (timers[i].type = "repeating")]
    /\ te' = [pc |-> IF RefreshWanted(updateCache) THEN "groups" ELSE "actions",
              idx |-> i, type |-> timers[i].type, name |-> timers[i].name, ran |-> 0]
    /\ grp' = [caller |-> "timer", flag |-> updateCache, groups |-> groups, g |-> 1, k |-> 1,
               ret |-> "none", log |-> <<>>]
    /\ timerHist' = [op |-> "fire", idx |-> i, type |-> timers[i].type, before |-> timers]
    /\ UNCHANGED <<objects, servTree>>
    /\ UNCHANGED notGrp

\* addGroup(group) called outside a timer expiry.
AddGroupCall(group) ==
    /\ te.pc = "idle"
    /\ grp.caller # "direct"
    /\ grp' = [caller |-> "direct", flag |-> TRUE, groups |-> <<group>>, g |-> 1, k |-> 1,
               ret |-> "none", log |-> <<>>]
    /\ UNCHANGED <<objects, servTree, timerVars>>
    /\ UNCHANGED notGrp

\* addGroup: one turn of the loop over the members.
AddGroupMember(out) ==
    /\ grp.caller = "direct" \/ te.pc = "groups"
    /\ GrpWalking
    /\ LET member == CurGroup.members[grp.k]
           last == grp.k = Len(CurGroup.members)
       IN /\ objects' = AddGroupObjects(objects, member, CurGroup.intf, CurGroup.prop, out)
          /\ servTree' = AddGroupTree(servTree, member, CurGroup.intf, out)
          /\ grp' = [grp EXCEPT !.g = IF last THEN @ + 1 ELSE @,
                                !.k = IF last THEN 1 ELSE @ + 1,
                                !.log = Append(@, [path |-> member, intf |-> CurGroup.intf,
                                                   prop |-> CurGroup.prop, out |-> out,
                                                   had |-> HasProperty(objects, member,
                                                                       CurGroup.intf,
                                                                       CurGroup.prop)])]
    /\ UNCHANGED timerVars
    /\ UNCHANGED notGrp

\* addGroup returns to its caller.
AddGroupReturn ==
    /\ grp.caller = "direct"
    /\ ~GrpWalking
    /\ grp' = [grp EXCEPT !.caller = "none", !.ret = "returned"]
    /\ UNCHANGED <<objects, servTree, timerVars>>
    /\ UNCHANGED notGrp

\* timerExpired: the std::for_each over the groups is over, the actions follow.
TimerGroupsDone ==
    /\ te.pc = "groups"
    /\ ~GrpWalking
    /\ te' = [te EXCEPT !.pc = "actions"]
    /\ timerHist' = [op |-> "refreshed", idx |-> te.idx, type |-> te.type, before |-> timers]
    /\ UNCHANGED <<objects, servTree, timers, grp>>
    /\ UNCHANGED notGrp

NextTimerCache ==
    \/ \E ty \in TimerTypes : AddTimer(ty, "e1", 1)
    \/ \E i \in 1..MaxTimers, f \in BOOLEAN, gs \in GroupLists : TimerFiresPkg(i, f, gs)
    \/ \E out \in BusOutcomes : AddGroupMember(out)
    \/ TimerGroupsDone
    \/ TimerRunAction
    \/ TimerRemove

NextAddGroup ==
    \/ \E g \in {GroupA, GroupB} : AddGroupCall(g)
    \/ \E out \in BusOutcomes : AddGroupMember(out)
    \/ AddGroupReturn

(***************************************************************************)
(* Claims on the cache refresh                                             *)
(***************************************************************************)
RECURSIVE AllMembers(_)
\* The (path, interface, property) of every member of every group, in the
\* order addGroup walks them.
AllMembers(groups) ==
    IF groups = <<>> THEN <<>>
    ELSE [k \in 1..Len(groups[1].members) |->
             [path |-> groups[1].members[k], intf |-> groups[1].intf, prop |-> groups[1].prop]]
         \o AllMembers(Tail(groups))

\* The walk of the log agrees with the cache: a member read from the bus is
\* cached with the value read, a member whose read failed is not cached.
LogInCache(k) ==
    LET e == grp.log[k]
    IN IF e.out \in BusFailures
          THEN ~HasProperty(objects, e.path, e.intf, e.prop)
          ELSE /\ HasProperty(objects, e.path, e.intf, e.prop)
               /\ objects[e.path][e.intf][e.prop] = e.out

\* C25: when a timer entry whose update_cache flag is set expires, every
\* member of every bound group has been re-fetched and the objects cache holds
\* what was fetched (the value read; no entry for a member whose read failed)
\* before the first action of the entry runs; when the flag is clear the
\* expiry changes no cache entry before the actions run.
C25_RefreshBeforeActions ==
    [][ /\ (te.pc # "actions" /\ te'.pc = "actions" /\ grp'.flag)
            => /\ Len(grp'.log) = Len(AllMembers(grp'.groups))
               /\ \A k \in 1..Len(grp'.log) :
                     /\ grp'.log[k].path = AllMembers(grp'.groups)[k].path
                     /\ grp'.log[k].intf = AllMembers(grp'.groups)[k].intf
                     /\ grp'.log[k].prop = AllMembers(grp'.groups)[k].prop
                     /\ LogInCache(k)'
        /\ te'.ran > te.ran => te.pc = "actions"
        /\ (te.pc = "idle" /\ te'.pc # "idle" /\ ~grp'.flag)
            => (te'.pc = "actions" /\ objects' = objects)
        /\ (te.pc = "actions" /\ ~grp.flag /\ te.ran = 0) => objects' = objects ]_vars

\* C25 witness: the first action of an entry with the flag set is about to
\* run, two groups have been walked, one member was read and one failed.
C25_Witness ==
    /\ te.pc = "actions" /\ te.ran = 0 /\ grp.caller = "timer" /\ grp.flag
    /\ Len(grp.groups) = 2
    /\ \E j, k \in 1..Len(grp.log) :
          grp.log[j].out \in PropValues /\ grp.log[k].out \in BusFailures

\* The objects cache but for one property.
SameBut(objs, path, intf, prop) ==
    [p \in DOMAIN objs |->
        [i \in DOMAIN objs[p] |->
            [q \in DOMAIN objs[p][i] \ (IF p = path /\ i = intf THEN {prop} ELSE {}) |->
                objs[p][i][q]]]]

\* C26: when a group is refreshed and the bus fails on a member, the failure
\* is swallowed: the member's (path, interface, property) is not in the
\* objects cache afterwards, whether or not it was cached before, the other
\* cache entries are as they were, the walk goes on with the next member, and
\* addGroup returns normally with every member walked.
C26_FailureSwallowed ==
    [][ /\ (Len(grp'.log) = Len(grp.log) + 1 /\ grp'.log[Len(grp'.log)].out \in BusFailures)
            => LET e == grp'.log[Len(grp'.log)]
               IN /\ ~HasProperty(objects', e.path, e.intf, e.prop)
                  /\ SameBut(objects', e.path, e.intf, e.prop)
                        = SameBut(objects, e.path, e.intf, e.prop)
                  /\ grp'.caller = grp.caller
                  /\ grp'.groups = grp.groups
        /\ (grp.caller = "direct" /\ grp'.caller # "direct")
            => /\ grp'.ret = "returned"
               /\ Len(grp.log) = Len(AllMembers(grp.groups))
               /\ \A k \in 1..Len(grp.log) :
                     /\ grp.log[k].path = AllMembers(grp.groups)[k].path
                     /\ LogInCache(k) ]_vars

\* C26 witness: addGroup has returned; the read of the first member failed
\* while the cache held its property, and the second member was read and is
\* cached.
C26_Witness ==
    /\ grp.ret = "returned"
    /\ Len(grp.log) = 2
    /\ grp.log[1].out \in BusFailures /\ grp.log[1].had
    /\ ~HasProperty(objects, grp.log[1].path, grp.log[1].intf, grp.log[1].prop)
    /\ grp.log[2].out \in PropValues
    /\ HasProperty(objects, grp.log[2].path, grp.log[2].intf, grp.log[2].prop)
(***************************************************************************)
(* Manager: an action or a handler that throws                             *)
(***************************************************************************)
\* timerExpired: action->run() throws.  Nothing in timerExpired catches, so
\* the exception leaves the callback from inside the std::for_each: the
\* actions after it and the lookup of the oneshot entry are not reached.
TimerActionThrows ==
    /\ te.pc = "actions"
    /\ te.ran < timers[te.idx].actions
    /\ te' = TeIdle
    /\ timerHist' = [op |-> "threw", idx |-> te.idx, type |-> te.type, before |-> timers]
    /\ UNCHANGED timers
    /\ UNCHANGED notTimer

\* handleSignal: the handler of package idx throws.  Nothing in handleSignal
\* catches, so the exception leaves the range-for over the packages.
SigHandlerThrows ==
    /\ sig.pc = "handler"
    /\ sig' = [sig EXCEPT !.pc = "threw",
                          !.msgAtStart = FALSE,
                          !.trace = Append(@, [ev |-> "handler", pkg |-> CurPkg,
                                               act |-> 0, atStart |-> sig.msgAtStart])]
    /\ UNCHANGED notSig

\* handleSignal: an action of package idx throws.
SigActionThrows ==
    /\ sig.pc = "actions"
    /\ sig.act <= Len(sig.pkgs[CurPkg].actions)
    /\ sig.pkgs[CurPkg].actions[sig.act]
    /\ sig' = [sig EXCEPT !.pc = "threw",
                          !.trace = Append(@, [ev |-> "action", pkg |-> CurPkg,
                                               act |-> sig.act,
                                               atStart |-> sig.msgAtStart])]
    /\ UNCHANGED notSig

\* The exception has left handleSignal.
SigUnwound ==
    /\ sig.pc = "threw"
    /\ sig' = SigIdle
    /\ UNCHANGED notSig

NextFailure ==
    \/ \E ty \in TimerTypes : AddTimer(ty, "e1", 1)
    \/ \E i \in 1..MaxTimers : TimerFires(i)
    \/ TimerRunAction
    \/ TimerActionThrows
    \/ TimerRemove
    \/ \E pkgs \in PkgLists : HandleSignal(pkgs)
    \/ SigHandler
    \/ SigHandlerThrows
    \/ SigAction
    \/ SigActionThrows
    \/ SigActionsDone
    \/ SigRewind
    \/ SigReturn
    \/ SigUnwound

(***************************************************************************)
(* Claims on failing actions                                               *)
(***************************************************************************)
\* C27: an exception thrown by an action or a handler aborts only that
\* action's sequence: when the dispatch of a message ends, the handler of
\* every package of the message has been invoked; no timer entry is removed
\* because of the exception; and a oneshot timer whose action threw is removed
\* from the timer list.
C27_FailureContained ==
    /\ sig.pc \in {"done", "threw"}
          => \A i \in 1..Len(sig.pkgs) : TraceHas("handler", i, 0)
    /\ timerHist.op = "threw"
          => timers = IF timerHist.type = "oneshot"
                         THEN RemoveAt(timerHist.before, timerHist.idx)
                         ELSE timerHist.before
(***************************************************************************)
(* Manager: power state changes                                            *)
(***************************************************************************)
NoPwr == [n |-> 0, on |-> FALSE, outcome |-> "none", trace |-> <<>>]

PwrInit == pwr = NoPwr

\* The keys of a map as a sequence, the order std::for_each walks them in.
RECURSIVE KeySeq(_)
KeySeq(ks) ==
    IF ks = {} THEN <<>>
    ELSE LET k == CHOOSE x \in ks : TRUE IN <<k>> \o KeySeq(ks \ {k})

\* Zone::setTarget: the zone's target becomes the value given.
SetTarget(z, t) == [z EXCEPT !.target = t]

\* The calls made on the zones: setTarget(getPoweronTarget()) on each.
PowerOnTargets(zs) ==
    LET ks == KeySeq(DOMAIN zs) IN
    [i \in 1..Len(ks) |-> [op |-> "setTarget", key |-> ks[i], value |-> zs[ks[i]].poweronTarget]]

\* The calls made on the events: powerOn() or powerOff() on each.
PowerTriggers(op, es) ==
    LET ks == KeySeq(DOMAIN es) IN
    [i \in 1..Len(ks) |-> [op |-> op, key |-> ks[i], value |-> 0]]

\* powerStateChanged going on without the test for an empty zones map.
PowerStateResultUnchecked(on, zs, es) ==
    IF on
       THEN [outcome |-> "done",
             trace   |-> PowerOnTargets(zs) \o PowerTriggers("powerOn", es),
             zones   |-> [k \in DOMAIN zs |-> SetTarget(zs[k], zs[k].poweronTarget)]]
       ELSE [outcome |-> "done", trace |-> PowerTriggers("powerOff", es), zones |-> zs]

\* powerStateChanged running the power on triggers before it sets the targets.
PowerStateResultTriggersFirst(on, zs, es) ==
    IF on
       THEN IF DOMAIN zs = {}
               THEN [outcome |-> "runtime_error", trace |-> <<>>, zones |-> zs]
               ELSE [outcome |-> "done",
                     trace   |-> PowerTriggers("powerOn", es) \o PowerOnTargets(zs),
                     zones   |-> [k \in DOMAIN zs |-> SetTarget(zs[k], zs[k].poweronTarget)]]
       ELSE [outcome |-> "done", trace |-> PowerTriggers("powerOff", es), zones |-> zs]

\* Manager::powerStateChanged: how it ends, the calls it makes in order and
\* the zones it leaves.
PowerStateResult(on, zs, es) ==
    IF on
       THEN IF DOMAIN zs = {}
               THEN [outcome |-> "runtime_error", trace |-> <<>>, zones |-> zs]
               ELSE [outcome |-> "done",
                     trace   |-> PowerOnTargets(zs) \o PowerTriggers("powerOn", es),
                     zones   |-> [k \in DOMAIN zs |-> SetTarget(zs[k], zs[k].poweronTarget)]]
       ELSE [outcome |-> "done", trace |-> PowerTriggers("powerOff", es), zones |-> zs]

\* The PGoodState callback; it runs on the event loop, between loads.
PowerStateChanged(on) ==
    LET res == PowerStateResult(on, zones, events) IN
    /\ ld.pc = "idle"
    /\ zones' = res.zones
    /\ pwr' = [n |-> (pwr.n + 1) % 2, on |-> on, outcome |-> res.outcome, trace |-> res.trace]
    /\ UNCHANGED <<events, profiles, activeProfiles, allGroups, signals, loadAllowed, ld,
                   reloadHist>>
    /\ UNCHANGED <<zoneVars, timerVars, servVars, sigVars, fanVars, callVars, objVars, thermVars, grpVars, oorVars>>

NextPower == \E on \in BOOLEAN : PowerStateChanged(on)

(***************************************************************************)
(* Claims on power state changes                                           *)
(***************************************************************************)
TraceOps(op) == {i \in 1..Len(pwr'.trace) : pwr'.trace[i].op = op}

PowerCall(on) == pwr'.n # pwr.n /\ pwr'.on = on

\* C15: power_state_changed(true) while no zone is loaded raises a fatal
\* error: no PowerOn trigger is fired and no zone target is written.
C15_PowerOnNoZones ==
    [][ (PowerCall(TRUE) /\ DOMAIN zones = {})
            => /\ pwr'.outcome = "runtime_error"
               /\ TraceOps("powerOn") = {}
               /\ TraceOps("setTarget") = {}
               /\ zones' = zones ]_vars

\* C15 witness: a power on has ended in the error while events were loaded
\* and no zone was.
C15_Witness ==
    /\ pwr.on
    /\ pwr.outcome = "runtime_error"
    /\ DOMAIN zones = {}
    /\ DOMAIN events # {}
    /\ ld.pc = "idle"

\* C16: power_state_changed(true) with a zone loaded sets every zone's
\* target to its poweron target before any PowerOn trigger and then fires
\* PowerOn of every event; power_state_changed(false) fires PowerOff of
\* every event and changes no zone target.
C16_PowerTransitions ==
    [][ /\ (PowerCall(TRUE) /\ DOMAIN zones # {})
            => /\ DOMAIN zones' = DOMAIN zones
               /\ \A k \in DOMAIN zones :
                     /\ zones'[k].target = zones[k].poweronTarget
                     /\ \E i \in TraceOps("setTarget") :
                           /\ pwr'.trace[i].key = k
                           /\ pwr'.trace[i].value = zones[k].poweronTarget
               /\ \A i \in TraceOps("setTarget"), j \in TraceOps("powerOn") : i < j
               /\ \A e \in DOMAIN events :
                     \E j \in TraceOps("powerOn") : pwr'.trace[j].key = e
        /\ PowerCall(FALSE)
            => /\ \A e \in DOMAIN events :
                     \E j \in TraceOps("powerOff") : pwr'.trace[j].key = e
               /\ TraceOps("setTarget") = {}
               /\ TraceOps("powerOn") = {}
               /\ zones' = zones ]_vars

\* C16 witness: a power on has moved the target of a zone to its poweron
\* target with two zones and two events loaded.
C16_Witness ==
    /\ pwr.on
    /\ pwr.outcome = "done"
    /\ \E i, j \in 1..Len(pwr.trace) :
          /\ i # j
          /\ pwr.trace[i].op = "setTarget"
          /\ pwr.trace[j].op = "setTarget"
    /\ \E i, j \in 1..Len(pwr.trace) :
          /\ i # j
          /\ pwr.trace[i].op = "powerOn"
          /\ pwr.trace[j].op = "powerOn"
    /\ \E k \in DOMAIN zones :
          zones[k].target = zones[k].poweronTarget /\ zones[k].target # zones[k].fullSpeed

(***************************************************************************)
(* Specifications                                                          *)
(***************************************************************************)
Init == ZoneInit /\ LoadInit /\ TimerInit /\ ServInit /\ SigInit /\ FanInit /\ CallInit /\ ObjInit /\ PwrInit /\ ThermInit /\ GrpInit /\ OorIdle

Next ==
    \/ NextZone
    \/ NextReload
    \/ NextTimer
    \/ NextServ
    \/ NextSignal
    \/ NextFan
    \/ NextCall
    \/ NextObj
    \/ NextAddObjects
    \/ NextAddServices
    \/ NextTimerCache
    \/ NextAddGroup
    \/ NextFailure
    \/ NextRange
    \/ NextOwner
    \/ NextPower
    \/ NextTherm

Spec == Init /\ [][Next]_vars

InitZone == ZoneInit /\ LoadInit /\ TimerInit /\ ServInit /\ SigInit /\ FanIdle /\ CallInit /\ ObjInit /\ PwrInit /\ ThermIdle /\ GrpInit /\ OorIdle

InitManager == ZoneIdle /\ LoadInit /\ TimerInit /\ ServInit /\ SigInit /\ FanIdle /\ CallInit /\ ObjInit /\ PwrInit /\ ThermIdle /\ GrpInit /\ OorIdle

InitTherm == ZoneIdle /\ LoadInit /\ TimerInit /\ ServInit /\ SigInit /\ FanIdle /\ CallInit /\ ObjInit /\ PwrInit /\ ThermInit /\ GrpInit /\ OorIdle

InitFan == ZoneIdle /\ LoadInit /\ TimerInit /\ ServInit /\ SigInit /\ FanInit /\ CallInit /\ ObjInit /\ PwrInit /\ ThermIdle /\ GrpInit /\ OorIdle

SpecZone == InitZone /\ [][NextZone]_vars

SpecReload == InitManager /\ [][NextReload]_vars

SpecTimer == InitManager /\ [][NextTimer]_vars

SpecServ == InitManager /\ [][NextServ]_vars

SpecOwner == InitManager /\ [][NextOwner]_vars

SpecSignal == InitManager /\ [][NextSignal]_vars

SpecInConfig == InitManager /\ [][NextCall]_vars

SpecObjects == InitManager /\ [][NextObj]_vars

SpecAddObjects == InitManager /\ [][NextAddObjects]_vars

SpecAddServices == InitManager /\ [][NextAddServices]_vars

SpecTimerCache == InitManager /\ [][NextTimerCache]_vars

SpecAddGroup == InitManager /\ [][NextAddGroup]_vars

SpecFailure == InitManager /\ [][NextFailure]_vars

SpecPower == InitManager /\ [][NextReload \/ NextPower]_vars

SpecTherm == InitTherm /\ [][NextTherm]_vars

InitRange == ZoneIdle /\ LoadInit /\ TimerInit /\ ServInit /\ SigInit /\ FanIdle /\ CallInit /\ ObjInit /\ PwrInit /\ ThermIdle /\ GrpInit /\ OorInit

SpecRange == InitRange /\ [][NextRange]_vars

SpecFan == InitFan /\ [][NextFan]_vars

====
